---- MODULE Spec2Model ----
(***************************************************************************)
(* Model of the liquidity-swap-lock contract (liquidity-swap-lock/src/     *)
(* lib.rs) together with the defi-common helpers it uses                   *)
(* (token_balances.rs, liquidity_util.rs, permission.rs, math.rs).         *)
(*                                                                         *)
(* The persisted contract state is the variable `state`; every handler of  *)
(* the contract is an operator from (state, inputs) to a result record     *)
(* [ok, state, ...], where ok = FALSE stands for a panic of the handler.   *)
(* The hosting chain discards the state of a panicked invocation, which is *)
(* what the actions do.                                                    *)
(***************************************************************************)
EXTENDS Integers, FiniteSets, Sequences, Bags, TLC

(***************************************************************************)
(* Bounds of the model.                                                    *)
(***************************************************************************)
\* Largest number of lock ids handed out in a behaviour.
MaxLocks == 2
\* Largest total of a reserve token ever held on the internal ledger.
MaxSupply == 2
\* Largest number of event groups (outgoing calls) in flight.
MaxPending == 1

\* Callers of the contract, and the contract's own address.
Users == {"u1", "u2"}
Pool == "pool"

\* Addresses of the two reserve token contracts.
TokenAAddress == "tokenA"
TokenBAddress == "tokenB"
TokenAddresses == {TokenAAddress, TokenBAddress}

\* Token::A, Token::B, Token::LIQUIDITY
TokenA == "A"
TokenB == "B"
LIQUIDITY == "L"
ReserveTokens == {TokenA, TokenB}

(***************************************************************************)
(* defi-common/src/token_balances.rs                                       *)
(***************************************************************************)
EMPTY_BALANCE == [a_tokens |-> 0, b_tokens |-> 0, liquidity_tokens |-> 0]

A_IN_B_OUT == [token_in |-> TokenA, token_out |-> TokenB]
B_IN_A_OUT == [token_in |-> TokenB, token_out |-> TokenA]

get_amount_of(balance, token) ==
    IF token = LIQUIDITY THEN balance.liquidity_tokens
    ELSE IF token = TokenA THEN balance.a_tokens
    ELSE balance.b_tokens

\* `*balance.get_mut_amount_of(token) = amount`
set_amount_of(balance, token, amount) ==
    IF token = LIQUIDITY THEN [balance EXCEPT !.liquidity_tokens = amount]
    ELSE IF token = TokenA THEN [balance EXCEPT !.a_tokens = amount]
    ELSE [balance EXCEPT !.b_tokens = amount]

user_has_no_tokens(balance) ==
    balance.a_tokens = 0 /\ balance.b_tokens = 0 /\ balance.liquidity_tokens = 0

\* AvlTreeMap::insert and AvlTreeMap::remove on a map modelled as a function.
MapInsert(map, key, value) ==
    [k \in DOMAIN map \cup {key} |-> IF k = key THEN value ELSE map[k]]

MapRemove(map, key) ==
    [k \in DOMAIN map \ {key} |-> map[k]]

\* AvlTreeMap::new
EmptyMap == [k \in {} |-> 0]

\* Placeholder for the lock of a failed remove_lock.
NoLock == [amount_in |-> 0, amount_out |-> 0, tokens_in_out |-> A_IN_B_OUT, owner |-> "nobody"]

\* Address::address_type: callers are accounts, everything else is a contract.
address_type(address) ==
    IF address \in Users THEN "Account" ELSE "PublicContract"

\* TokenBalances::new without the check that the two tokens differ.
TokenBalances_new_same_tokens(token_lp_address, token_a_address, token_b_address) ==
    LET built == [token_lp_address |-> token_lp_address,
                  token_a_address |-> token_a_address,
                  token_b_address |-> token_b_address,
                  balances |-> EmptyMap]
    IN  IF address_type(token_a_address) = "Account"
        THEN [ok |-> FALSE, token_balances |-> built]
        ELSE IF address_type(token_b_address) = "Account"
        THEN [ok |-> FALSE, token_balances |-> built]
        ELSE [ok |-> TRUE, token_balances |-> built]

\* TokenBalances::new. Result [ok, token_balances].
TokenBalances_new(token_lp_address, token_a_address, token_b_address) ==
    LET built == [token_lp_address |-> token_lp_address,
                  token_a_address |-> token_a_address,
                  token_b_address |-> token_b_address,
                  balances |-> EmptyMap]
    IN  IF address_type(token_a_address) = "Account"
        THEN [ok |-> FALSE, token_balances |-> built]
        ELSE IF address_type(token_b_address) = "Account"
        THEN [ok |-> FALSE, token_balances |-> built]
        ELSE IF token_a_address = token_b_address
        THEN [ok |-> FALSE, token_balances |-> built]
        ELSE [ok |-> TRUE, token_balances |-> built]

get_balance_for(self, user) ==
    IF user \in DOMAIN self.balances THEN self.balances[user] ELSE EMPTY_BALANCE

add_to_token_balance(self, user, token, amount) ==
    LET token_balance == get_balance_for(self, user)
    IN  [self EXCEPT !.balances =
            MapInsert(self.balances, user,
                set_amount_of(token_balance, token,
                              get_amount_of(token_balance, token) + amount))]

\* Result [ok, token_balances]; ok = FALSE is the "Insufficient deposit" panic.
\* deduct_from_token_balance that subtracts with saturation instead of panicking.
deduct_from_token_balance_saturating(self, user, token, amount) ==
    LET user_balances == get_balance_for(self, user)
        token_balance == get_amount_of(user_balances, token)
        updated == set_amount_of(user_balances, token,
                                 IF token_balance < amount THEN 0 ELSE token_balance - amount)
    IN  [ok |-> TRUE,
         token_balances |->
             [self EXCEPT !.balances =
                 IF user_has_no_tokens(updated)
                 THEN MapRemove(self.balances, user)
                 ELSE MapInsert(self.balances, user, updated)]]

\* deduct_from_token_balance that stores the lowered balance even when it is
\* all-zero.
deduct_from_token_balance_keeps_entry(self, user, token, amount) ==
    LET user_balances == get_balance_for(self, user)
        token_balance == get_amount_of(user_balances, token)
    IN  IF token_balance < amount
        THEN [ok |-> FALSE, token_balances |-> self]
        ELSE [ok |-> TRUE,
              token_balances |->
                  [self EXCEPT !.balances =
                      MapInsert(self.balances, user,
                          set_amount_of(user_balances, token, token_balance - amount))]]

deduct_from_token_balance(self, user, token, amount) ==
    LET user_balances == get_balance_for(self, user)
        token_balance == get_amount_of(user_balances, token)
    IN  IF token_balance < amount
        THEN [ok |-> FALSE, token_balances |-> self]
        ELSE LET updated == set_amount_of(user_balances, token, token_balance - amount)
             IN  [ok |-> TRUE,
                  token_balances |->
                      [self EXCEPT !.balances =
                          IF user_has_no_tokens(updated)
                          THEN MapRemove(self.balances, user)
                          ELSE MapInsert(self.balances, user, updated)]]

\* move_tokens that credits the receiver without debiting the sender.
move_tokens_without_deduct(self, from, to, moved_token, amount) ==
    [ok |-> TRUE, token_balances |-> add_to_token_balance(self, to, moved_token, amount)]

\* move_tokens that deducts from the sender but credits nobody.
move_tokens_without_credit(self, from, to, moved_token, amount) ==
    deduct_from_token_balance(self, from, moved_token, amount)

move_tokens(self, from, to, moved_token, amount) ==
    LET deducted == deduct_from_token_balance(self, from, moved_token, amount)
    IN  IF ~deducted.ok
        THEN deducted
        ELSE [ok |-> TRUE,
              token_balances |->
                  add_to_token_balance(deducted.token_balances, to, moved_token, amount)]

deduce_tokens_in_out_b(token_in_a) ==
    IF token_in_a THEN A_IN_B_OUT ELSE B_IN_A_OUT

\* Result [ok, tokens]; ok = FALSE is the "token_in invalid token address" panic.
deduce_tokens_in_out(self, token_in_token_address) ==
    LET token_in_a == (self.token_a_address = token_in_token_address)
        token_in_b == (self.token_b_address = token_in_token_address)
    IN  IF ~token_in_a /\ ~token_in_b
        THEN [ok |-> FALSE, tokens |-> A_IN_B_OUT]
        ELSE [ok |-> TRUE, tokens |-> deduce_tokens_in_out_b(token_in_a)]

(***************************************************************************)
(* defi-common/src/liquidity_util.rs, permission.rs                        *)
(***************************************************************************)
\* LiquidityLockId: the raw_id.
initial_id == 0

\* next that returns the same id.
LiquidityLockId_next_same(raw_id) == raw_id

LiquidityLockId_next(raw_id) == raw_id + 1

\* Result [ok, amount]; ok = FALSE is the division by zero panic.
calculate_swap_to_amount(pool_token_in, pool_token_out, swap_amount_in, swap_fee_per_mille) ==
    LET remainder_ratio == 1000 - swap_fee_per_mille
        denominator == 1000 * pool_token_in + remainder_ratio * swap_amount_in
    IN  IF denominator = 0
        THEN [ok |-> FALSE, amount |-> 0]
        ELSE [ok |-> TRUE,
              amount |-> (remainder_ratio * swap_amount_in * pool_token_out) \div denominator]

\* Permission::Anybody is [anybody |-> TRUE, addresses |-> {}],
\* Permission::Specific is [anybody |-> FALSE, addresses |-> the addresses].
\* does_address_have_permission that allows everybody.
does_address_have_permission_always(permission, addr) == TRUE

does_address_have_permission(permission, addr) ==
    IF permission.anybody THEN TRUE ELSE addr \in permission.addresses

(***************************************************************************)
(* liquidity-swap-lock/src/lib.rs: VirtualState                            *)
(***************************************************************************)
VirtualState_new ==
    [next_lock_id |-> initial_id,
     locks |-> EmptyMap,
     lock_liquidity |-> [a_tokens |-> 0, b_tokens |-> 0]]

\* LockLiquidity::get_mut_amount_of, as a read and as an update by `change`.
lock_liquidity_amount_of(lock_liquidity, token) ==
    IF token = TokenA THEN lock_liquidity.a_tokens ELSE lock_liquidity.b_tokens

lock_liquidity_add(lock_liquidity, token, change) ==
    IF token = TokenA
    THEN [lock_liquidity EXCEPT !.a_tokens = @ + change]
    ELSE [lock_liquidity EXCEPT !.b_tokens = @ + change]

\* Result [virtual_state, lock_id].
\* add_lock that forgets to add amount_in to the adjustment.
add_lock_skips_amount_in(self, lock) ==
    LET lock_id == self.next_lock_id
        after_out == lock_liquidity_add(self.lock_liquidity,
                                        lock.tokens_in_out.token_out, 0 - lock.amount_out)
    IN  [virtual_state |->
            [next_lock_id |-> LiquidityLockId_next(self.next_lock_id),
             locks |-> MapInsert(self.locks, lock_id, lock),
             lock_liquidity |-> after_out],
         lock_id |-> lock_id]

add_lock(self, lock) ==
    LET lock_id == self.next_lock_id
        after_in == lock_liquidity_add(self.lock_liquidity,
                                       lock.tokens_in_out.token_in, lock.amount_in)
        after_out == lock_liquidity_add(after_in,
                                        lock.tokens_in_out.token_out, 0 - lock.amount_out)
    IN  [virtual_state |->
            [next_lock_id |-> LiquidityLockId_next(self.next_lock_id),
             locks |-> MapInsert(self.locks, lock_id, lock),
             lock_liquidity |-> after_out],
         lock_id |-> lock_id]

\* remove_lock that does not look at the sender.
remove_lock_any_sender(self, lock_id, sender) ==
    IF lock_id \notin DOMAIN self.locks
    THEN [ok |-> FALSE, virtual_state |-> self, lock |-> NoLock]
    ELSE LET lock == self.locks[lock_id]
             after_in == lock_liquidity_add(self.lock_liquidity,
                             lock.tokens_in_out.token_in, 0 - lock.amount_in)
             after_out == lock_liquidity_add(after_in,
                             lock.tokens_in_out.token_out, lock.amount_out)
         IN  [ok |-> TRUE,
              virtual_state |-> [self EXCEPT !.locks = MapRemove(self.locks, lock_id),
                                             !.lock_liquidity = after_out],
              lock |-> lock]

\* remove_lock that leaves the lock in the map.
remove_lock_leaves_lock(self, lock_id, sender) ==
    IF lock_id \notin DOMAIN self.locks
    THEN [ok |-> FALSE, virtual_state |-> self, lock |-> NoLock]
    ELSE LET lock == self.locks[lock_id]
         IN  IF sender # lock.owner
             THEN [ok |-> FALSE, virtual_state |-> self, lock |-> NoLock]
             ELSE LET after_in == lock_liquidity_add(self.lock_liquidity,
                                      lock.tokens_in_out.token_in, 0 - lock.amount_in)
                      after_out == lock_liquidity_add(after_in,
                                      lock.tokens_in_out.token_out, lock.amount_out)
                  IN  [ok |-> TRUE,
                       virtual_state |-> [self EXCEPT !.lock_liquidity = after_out],
                       lock |-> lock]

\* remove_lock that forgets to give amount_out back to the adjustment.
remove_lock_keeps_amount_out(self, lock_id, sender) ==
    IF lock_id \notin DOMAIN self.locks
    THEN [ok |-> FALSE, virtual_state |-> self, lock |-> NoLock]
    ELSE LET lock == self.locks[lock_id]
         IN  IF sender # lock.owner
             THEN [ok |-> FALSE, virtual_state |-> self, lock |-> NoLock]
             ELSE [ok |-> TRUE,
                   virtual_state |->
                       [self EXCEPT !.locks = MapRemove(self.locks, lock_id),
                                    !.lock_liquidity =
                                        lock_liquidity_add(self.lock_liquidity,
                                            lock.tokens_in_out.token_in, 0 - lock.amount_in)],
                   lock |-> lock]

\* remove_lock that removes the lock but leaves the lock liquidity as it is.
remove_lock_keeps_adjustment(self, lock_id, sender) ==
    IF lock_id \notin DOMAIN self.locks
    THEN [ok |-> FALSE, virtual_state |-> self, lock |-> NoLock]
    ELSE LET lock == self.locks[lock_id]
         IN  IF sender # lock.owner
             THEN [ok |-> FALSE, virtual_state |-> self, lock |-> NoLock]
             ELSE [ok |-> TRUE,
                   virtual_state |-> [self EXCEPT !.locks = MapRemove(self.locks, lock_id)],
                   lock |-> lock]

\* Result [ok, virtual_state, lock]; ok = FALSE is the "not a valid lock id"
\* panic or the "Permission denied" assertion.
remove_lock(self, lock_id, sender) ==
    IF lock_id \notin DOMAIN self.locks
    THEN [ok |-> FALSE, virtual_state |-> self, lock |-> NoLock]
    ELSE LET lock == self.locks[lock_id]
         IN  IF sender # lock.owner
             THEN [ok |-> FALSE, virtual_state |-> self, lock |-> NoLock]
             ELSE LET after_in == lock_liquidity_add(self.lock_liquidity,
                                      lock.tokens_in_out.token_in, 0 - lock.amount_in)
                      after_out == lock_liquidity_add(after_in,
                                      lock.tokens_in_out.token_out, lock.amount_out)
                  IN  [ok |-> TRUE,
                       virtual_state |->
                           [self EXCEPT !.locks = MapRemove(self.locks, lock_id),
                                        !.lock_liquidity = after_out],
                       lock |-> lock]

\* u128::checked_add_signed(..).unwrap(): result [ok, value].
checked_add_signed(amount, delta) ==
    IF amount + delta < 0
    THEN [ok |-> FALSE, value |-> 0]
    ELSE [ok |-> TRUE, value |-> amount + delta]

\* Result [ok, balance]; ok = FALSE is the unwrap of a failed checked addition.
virtual_liquidity_pools(self, actual_a, actual_b) ==
    LET virtual_a == checked_add_signed(actual_a, self.lock_liquidity.a_tokens)
        virtual_b == checked_add_signed(actual_b, self.lock_liquidity.b_tokens)
    IN  [ok |-> virtual_a.ok /\ virtual_b.ok,
         balance |-> [a_tokens |-> virtual_a.value,
                      b_tokens |-> virtual_b.value,
                      liquidity_tokens |-> 0]]

\* True when NO lock exists (the source's name reads the other way round).
\* any_locked_liquidity that ignores the locks.
any_locked_liquidity_always(self) == TRUE

any_locked_liquidity(self) ==
    DOMAIN self.locks = {}

(***************************************************************************)
(* defi-common/src/math.rs                                                 *)
(***************************************************************************)
\* Amounts are u128 in the source; the model scales the machine word to
\* 2 * HalfBits bits, so that u64 is HalfBits bits wide.
HalfBits == 6

RECURSIVE Pow2(_)
Pow2(n) == IF n = 0 THEN 1 ELSE 2 * Pow2(n - 1)

AmountMax == Pow2(2 * HalfBits) - 1

\* u128::checked_mul: result [ok, value].
checked_mul(x, y) ==
    IF x * y > AmountMax THEN [ok |-> FALSE, value |-> 0] ELSE [ok |-> TRUE, value |-> x * y]

\* One iteration of the loop of u128_sqrt in the state (low, high): the new
\* (low, high).
\* The iteration with the comparison `middle_squared < input`.
u128_sqrt_step_strict(input, low, high) ==
    LET middle == (low + high) \div 2
        middle_squared == checked_mul(middle, middle)
    IN  IF middle_squared.ok /\ middle_squared.value < input
        THEN [low |-> middle, high |-> high]
        ELSE [low |-> low, high |-> middle]

u128_sqrt_step(input, low, high) ==
    LET middle == (low + high) \div 2
        middle_squared == checked_mul(middle, middle)
    IN  IF middle_squared.ok /\ middle_squared.value <= input
        THEN [low |-> middle, high |-> high]
        ELSE [low |-> low, high |-> middle]

\* The loop of u128_sqrt, from the state (low, high).
RECURSIVE u128_sqrt_loop(_, _, _)
u128_sqrt_loop(input, low, high) ==
    IF low = high - 1
    THEN low
    ELSE LET next == u128_sqrt_step(input, low, high)
         IN  u128_sqrt_loop(input, next.low, next.high)

\* `2 << 64` scaled to the model's word.
u128_sqrt_high == 2 * Pow2(HalfBits)

u128_sqrt(input) == u128_sqrt_loop(input, 0, u128_sqrt_high)

\* u64::MAX, the largest value `low.try_into().unwrap()` accepts.
HalfMax == Pow2(HalfBits) - 1

(***************************************************************************)
(* The arithmetic of TokenAmount (u128, here 2 * HalfBits bits). A product *)
(* or sum above AmountMax aborts the call in a build with overflow checks  *)
(* and wraps around in a build without them: the outcomes of a function    *)
(* are the results [ok, ...] that a build can produce, ok = FALSE being    *)
(* the abort.                                                              *)
(***************************************************************************)
wrapping(x) == x % (AmountMax + 1)

\* calculate_swap_to_amount in TokenAmount arithmetic.
calculate_swap_to_amount_outcomes(pool_token_in, pool_token_out, swap_amount_in, swap_fee_per_mille) ==
    LET remainder_ratio == 1000 - swap_fee_per_mille
        ratio_amount == remainder_ratio * swap_amount_in
        overflow == \/ ratio_amount > AmountMax
                    \/ ratio_amount * pool_token_out > AmountMax
                    \/ 1000 * pool_token_in > AmountMax
                    \/ 1000 * pool_token_in + ratio_amount > AmountMax
        numerator == wrapping(wrapping(ratio_amount) * pool_token_out)
        denominator == wrapping(wrapping(1000 * pool_token_in) + wrapping(ratio_amount))
    IN  IF ~overflow
        THEN {calculate_swap_to_amount(pool_token_in, pool_token_out, swap_amount_in,
                                       swap_fee_per_mille)}
        ELSE {[ok |-> FALSE, amount |-> 0],
              IF denominator = 0
              THEN [ok |-> FALSE, amount |-> 0]
              ELSE [ok |-> TRUE, amount |-> numerator \div denominator]}


(***************************************************************************)
(* liquidity-swap-lock/src/lib.rs: the contract                            *)
(***************************************************************************)
\* ALLOWED_FEE_PER_MILLE = 0..=1000
ALLOWED_FEE_PER_MILLE == 0..1000

contract_pools_have_liquidity(self) ==
    LET contract_token_balance ==
            get_balance_for(self.token_balances, self.liquidity_pool_address)
    IN  contract_token_balance.a_tokens # 0 /\ contract_token_balance.b_tokens # 0

\* Result [ok, state].
initialize(contract_address, token_a_address, token_b_address, swap_fee_per_mille, permission_lock_swap) ==
    LET token_balances == TokenBalances_new(contract_address, token_a_address, token_b_address)
        new_state == [permission_lock_swap |-> permission_lock_swap,
                      liquidity_pool_address |-> contract_address,
                      swap_fee_per_mille |-> swap_fee_per_mille,
                      token_balances |-> token_balances.token_balances,
                      virtual_state |-> VirtualState_new]
    IN  IF swap_fee_per_mille \notin ALLOWED_FEE_PER_MILLE
        THEN [ok |-> FALSE, state |-> new_state]
        ELSE [ok |-> token_balances.ok, state |-> new_state]

initial_liquidity_tokens(token_a_amount, token_b_amount) ==
    u128_sqrt(token_a_amount * token_b_amount)

\* Result [ok, amount]; ok = FALSE when the virtual pools cannot be computed
\* or a quote divides by zero.
\* calculate_minimum_swap_to_amount that only quotes on the actual reserves.
calculate_minimum_swap_to_amount_actual(state, amount_in, tokens_in_out) ==
    LET actual_balance == get_balance_for(state.token_balances, state.liquidity_pool_address)
    IN  calculate_swap_to_amount(
            get_amount_of(actual_balance, tokens_in_out.token_in),
            get_amount_of(actual_balance, tokens_in_out.token_out),
            amount_in, state.swap_fee_per_mille)

calculate_minimum_swap_to_amount(state, amount_in, tokens_in_out) ==
    LET actual_balance == get_balance_for(state.token_balances, state.liquidity_pool_address)
        actual_a == get_amount_of(actual_balance, TokenA)
        actual_b == get_amount_of(actual_balance, TokenB)
        virtual_balance == virtual_liquidity_pools(state.virtual_state, actual_a, actual_b)
        non_locked_rate == calculate_swap_to_amount(
            get_amount_of(actual_balance, tokens_in_out.token_in),
            get_amount_of(actual_balance, tokens_in_out.token_out),
            amount_in, state.swap_fee_per_mille)
        locked_rate == calculate_swap_to_amount(
            get_amount_of(virtual_balance.balance, tokens_in_out.token_in),
            get_amount_of(virtual_balance.balance, tokens_in_out.token_out),
            amount_in, state.swap_fee_per_mille)
    IN  IF ~virtual_balance.ok \/ ~non_locked_rate.ok \/ ~locked_rate.ok
        THEN [ok |-> FALSE, amount |-> 0]
        ELSE [ok |-> TRUE,
              amount |-> IF non_locked_rate.amount <= locked_rate.amount
                         THEN non_locked_rate.amount ELSE locked_rate.amount]

\* Result (token_out_equivalent, minted_liquidity_tokens) as [ok, equivalent, minted];
\* ok = FALSE is the division by zero.
\* calculate_equivalent_and_minted_tokens that rounds the minted liquidity
\* tokens up instead of down.
calculate_equivalent_and_minted_tokens_minting_up(token_in_amount, token_in_pool, token_out_pool, total_minted_liquidity) ==
    IF token_in_pool = 0
    THEN [ok |-> FALSE, equivalent |-> 0, minted |-> 0]
    ELSE [ok |-> TRUE,
          equivalent |-> IF token_in_amount > 0
                         THEN ((token_in_amount * token_out_pool) \div token_in_pool) + 1
                         ELSE 0,
          minted |-> IF token_in_amount > 0
                     THEN ((token_in_amount * total_minted_liquidity) \div token_in_pool) + 1
                     ELSE 0]

\* calculate_equivalent_and_minted_tokens without the zero case: the
\* equivalent is rounded up for every amount.
calculate_equivalent_and_minted_tokens_without_zero_case(token_in_amount, token_in_pool, token_out_pool, total_minted_liquidity) ==
    IF token_in_pool = 0
    THEN [ok |-> FALSE, equivalent |-> 0, minted |-> 0]
    ELSE [ok |-> TRUE,
          equivalent |-> ((token_in_amount * token_out_pool) \div token_in_pool) + 1,
          minted |-> (token_in_amount * total_minted_liquidity) \div token_in_pool]

calculate_equivalent_and_minted_tokens(token_in_amount, token_in_pool, token_out_pool, total_minted_liquidity) ==
    IF token_in_pool = 0
    THEN [ok |-> FALSE, equivalent |-> 0, minted |-> 0]
    ELSE [ok |-> TRUE,
          equivalent |-> IF token_in_amount > 0
                         THEN ((token_in_amount * token_out_pool) \div token_in_pool) + 1
                         ELSE 0,
          minted |-> (token_in_amount * total_minted_liquidity) \div token_in_pool]

\* calculate_equivalent_and_minted_tokens in TokenAmount arithmetic.
calculate_equivalent_and_minted_tokens_outcomes(token_in_amount, token_in_pool, token_out_pool, total_minted_liquidity) ==
    LET abort == [ok |-> FALSE, equivalent |-> 0, minted |-> 0]
        overflow == \/ token_in_amount * token_out_pool > AmountMax
                    \/ ((token_in_amount * token_out_pool) \div token_in_pool) + 1 > AmountMax
                    \/ token_in_amount * total_minted_liquidity > AmountMax
    IN  IF token_in_pool = 0
        THEN {abort}
        ELSE IF ~overflow
        THEN {calculate_equivalent_and_minted_tokens(token_in_amount, token_in_pool,
                                                     token_out_pool, total_minted_liquidity)}
        ELSE {abort,
              [ok |-> TRUE,
               equivalent |->
                   IF token_in_amount > 0
                   THEN wrapping((wrapping(token_in_amount * token_out_pool)
                                    \div token_in_pool) + 1)
                   ELSE 0,
               minted |-> wrapping(token_in_amount * total_minted_liquidity)
                            \div token_in_pool]}

\* Result (a_output, b_output) as [ok, a_output, b_output].
\* calculate_reclaim_output that rounds the outputs up.
calculate_reclaim_output_rounding_up(liquidity_token_amount, pool_a, pool_b, minted_liquidity) ==
    IF minted_liquidity = 0
    THEN [ok |-> FALSE, a_output |-> 0, b_output |-> 0]
    ELSE [ok |-> TRUE,
          a_output |-> (pool_a * liquidity_token_amount + minted_liquidity - 1)
                         \div minted_liquidity,
          b_output |-> (pool_b * liquidity_token_amount + minted_liquidity - 1)
                         \div minted_liquidity]

calculate_reclaim_output(liquidity_token_amount, pool_a, pool_b, minted_liquidity) ==
    IF minted_liquidity = 0
    THEN [ok |-> FALSE, a_output |-> 0, b_output |-> 0]
    ELSE [ok |-> TRUE,
          a_output |-> (pool_a * liquidity_token_amount) \div minted_liquidity,
          b_output |-> (pool_b * liquidity_token_amount) \div minted_liquidity]

\* provide_liquidity_internal that credits the minted shares to the provider
\* but not to the pool's total.
provide_liquidity_internal_uncounted(state, user, tokens, token_in_amount, token_out_amount, minted_liquidity_tokens) ==
    LET moved_in == move_tokens(state.token_balances, user, state.liquidity_pool_address,
                                tokens.token_in, token_in_amount)
        moved_out == move_tokens(moved_in.token_balances, user, state.liquidity_pool_address,
                                 tokens.token_out, token_out_amount)
        minted_user == add_to_token_balance(moved_out.token_balances, user,
                                            LIQUIDITY, minted_liquidity_tokens)
    IN  IF ~moved_in.ok
        THEN [ok |-> FALSE, state |-> state]
        ELSE IF ~moved_out.ok
        THEN [ok |-> FALSE, state |-> [state EXCEPT !.token_balances = moved_in.token_balances]]
        ELSE [ok |-> TRUE, state |-> [state EXCEPT !.token_balances = minted_user]]

\* Result [ok, state].
provide_liquidity_internal(state, user, tokens, token_in_amount, token_out_amount, minted_liquidity_tokens) ==
    LET moved_in == move_tokens(state.token_balances, user, state.liquidity_pool_address,
                                tokens.token_in, token_in_amount)
        moved_out == move_tokens(moved_in.token_balances, user, state.liquidity_pool_address,
                                 tokens.token_out, token_out_amount)
        minted_user == add_to_token_balance(moved_out.token_balances, user,
                                            LIQUIDITY, minted_liquidity_tokens)
        minted_pool == add_to_token_balance(minted_user, state.liquidity_pool_address,
                                            LIQUIDITY, minted_liquidity_tokens)
    IN  IF ~moved_in.ok
        THEN [ok |-> FALSE, state |-> state]
        ELSE IF ~moved_out.ok
        THEN [ok |-> FALSE, state |-> [state EXCEPT !.token_balances = moved_in.token_balances]]
        ELSE [ok |-> TRUE, state |-> [state EXCEPT !.token_balances = minted_pool]]

\* Result [ok, state, lock_id, amount_out]; ok = FALSE also when the quote is
\* below amount_out_minimum.
lock_internal(state, amount_in, token_in, amount_out_minimum, owner) ==
    LET tokens == deduce_tokens_in_out(state.token_balances, token_in)
        amount_out == calculate_minimum_swap_to_amount(state, amount_in, tokens.tokens)
        lock == [amount_in |-> amount_in,
                 amount_out |-> amount_out.amount,
                 tokens_in_out |-> tokens.tokens,
                 owner |-> owner]
        added == add_lock(state.virtual_state, lock)
    IN  IF ~tokens.ok \/ ~amount_out.ok \/ amount_out.amount < amount_out_minimum
        THEN [ok |-> FALSE, state |-> state, lock_id |-> state.virtual_state.next_lock_id,
              amount_out |-> 0]
        ELSE [ok |-> TRUE,
              state |-> [state EXCEPT !.virtual_state = added.virtual_state],
              lock_id |-> added.lock_id,
              amount_out |-> amount_out.amount]

\* execute_lock_swap_internal that does not collect amount_in from the owner.
execute_lock_swap_internal_unpaid(state, lock_id, sender) ==
    LET removed == remove_lock(state.virtual_state, lock_id, sender)
        lock == removed.lock
        unlocked == [state EXCEPT !.virtual_state = removed.virtual_state]
        moved_out == move_tokens(state.token_balances, state.liquidity_pool_address,
                                 lock.owner, lock.tokens_in_out.token_out, lock.amount_out)
    IN  IF ~removed.ok
        THEN [ok |-> FALSE, state |-> state, amount_out |-> 0]
        ELSE IF ~moved_out.ok
        THEN [ok |-> FALSE, state |-> unlocked, amount_out |-> 0]
        ELSE [ok |-> TRUE,
              state |-> [unlocked EXCEPT !.token_balances = moved_out.token_balances],
              amount_out |-> lock.amount_out]

\* execute_lock_swap_internal that pays the quote of the time of execution
\* instead of the amount_out stored in the lock.
execute_lock_swap_internal_requoted(state, lock_id, sender) ==
    LET removed == remove_lock(state.virtual_state, lock_id, sender)
        lock == removed.lock
        unlocked == [state EXCEPT !.virtual_state = removed.virtual_state]
        requoted == calculate_minimum_swap_to_amount(unlocked, lock.amount_in,
                                                     lock.tokens_in_out)
        moved_in == move_tokens(state.token_balances, lock.owner,
                                state.liquidity_pool_address,
                                lock.tokens_in_out.token_in, lock.amount_in)
        moved_out == move_tokens(moved_in.token_balances, state.liquidity_pool_address,
                                 lock.owner, lock.tokens_in_out.token_out, requoted.amount)
    IN  IF ~removed.ok \/ ~requoted.ok \/ ~moved_in.ok \/ ~moved_out.ok
        THEN [ok |-> FALSE, state |-> state, amount_out |-> 0]
        ELSE [ok |-> TRUE,
              state |-> [unlocked EXCEPT !.token_balances = moved_out.token_balances],
              amount_out |-> requoted.amount]

\* Result [ok, state, amount_out]. When a move panics the state is the one the
\* handler had reached: the lock removed, and possibly amount_in moved.
execute_lock_swap_internal(state, lock_id, sender) ==
    LET removed == remove_lock(state.virtual_state, lock_id, sender)
        lock == removed.lock
        unlocked == [state EXCEPT !.virtual_state = removed.virtual_state]
        moved_in == move_tokens(state.token_balances, lock.owner,
                                state.liquidity_pool_address,
                                lock.tokens_in_out.token_in, lock.amount_in)
        moved_out == move_tokens(moved_in.token_balances, state.liquidity_pool_address,
                                 lock.owner, lock.tokens_in_out.token_out, lock.amount_out)
    IN  IF ~removed.ok
        THEN [ok |-> FALSE, state |-> state, amount_out |-> 0]
        ELSE IF ~moved_in.ok
        THEN [ok |-> FALSE, state |-> unlocked, amount_out |-> 0]
        ELSE IF ~moved_out.ok
        THEN [ok |-> FALSE,
              state |-> [unlocked EXCEPT !.token_balances = moved_in.token_balances],
              amount_out |-> 0]
        ELSE [ok |-> TRUE,
              state |-> [unlocked EXCEPT !.token_balances = moved_out.token_balances],
              amount_out |-> lock.amount_out]

(***************************************************************************)
(* The actions and callbacks of the contract. Each result has the fields   *)
(* ok, state (the state the handler had reached), events (the event groups *)
(* it returns) and ret (the data returned to callbacks).                   *)
(***************************************************************************)
\* No lock id: the value of a lock id field that names no lock.
NoLockId == -1

NoReturn == [lock_id |-> NoLockId, amount_out |-> 0]

\* deposit that credits the depositor before the transfer is confirmed.
deposit_credits_at_once(sender, state, token_address, amount) ==
    LET tokens == deduce_tokens_in_out(state.token_balances, token_address)
    IN  IF ~tokens.ok
        THEN [ok |-> FALSE, state |-> state, events |-> {}, ret |-> NoReturn]
        ELSE [ok |-> TRUE,
              state |-> [state EXCEPT !.token_balances =
                            add_to_token_balance(state.token_balances, sender,
                                                 tokens.tokens.token_in, amount)],
              events |-> {[callback |-> "deposit_callback", sender |-> sender,
                           token_address |-> token_address,
                           token |-> tokens.tokens.token_in, amount |-> amount]},
              ret |-> NoReturn]

\* #[action(shortname = 0x01)]
deposit(sender, state, token_address, amount) ==
    LET tokens == deduce_tokens_in_out(state.token_balances, token_address)
    IN  IF ~tokens.ok
        THEN [ok |-> FALSE, state |-> state, events |-> {}, ret |-> NoReturn]
        ELSE [ok |-> TRUE, state |-> state,
              events |-> {[callback |-> "deposit_callback", sender |-> sender,
                           token_address |-> token_address,
                           token |-> tokens.tokens.token_in, amount |-> amount]},
              ret |-> NoReturn]

\* deposit_callback that does not look at the result of the transfer.
deposit_callback_unchecked(sender, success, state, token, amount) ==
    [ok |-> TRUE,
     state |-> [state EXCEPT !.token_balances =
                   add_to_token_balance(state.token_balances, sender, token, amount)],
     events |-> {}, ret |-> NoReturn]

\* deposit_callback that accepts the transfer but loses the credit.
deposit_callback_dropping(sender, success, state, token, amount) ==
    IF ~success
    THEN [ok |-> FALSE, state |-> state, events |-> {}, ret |-> NoReturn]
    ELSE [ok |-> TRUE, state |-> state, events |-> {}, ret |-> NoReturn]

\* #[callback(shortname = 0x10)]
deposit_callback(sender, success, state, token, amount) ==
    IF ~success
    THEN [ok |-> FALSE, state |-> state, events |-> {}, ret |-> NoReturn]
    ELSE [ok |-> TRUE,
          state |-> [state EXCEPT !.token_balances =
                        add_to_token_balance(state.token_balances, sender, token, amount)],
          events |-> {}, ret |-> NoReturn]

\* instant_swap that acquires the lock and moves the tokens of the swap but
\* leaves the lock in the virtual state.
instant_swap_keeps_lock(sender, state, token_in, amount_in, amount_out_minimum) ==
    LET locked == lock_internal(state, amount_in, token_in, amount_out_minimum, sender)
        executed == execute_lock_swap_internal(locked.state, locked.lock_id, sender)
    IN  IF ~contract_pools_have_liquidity(state)
        THEN [ok |-> FALSE, state |-> state, events |-> {}, ret |-> NoReturn]
        ELSE IF ~locked.ok
        THEN [ok |-> FALSE, state |-> locked.state, events |-> {}, ret |-> NoReturn]
        ELSE [ok |-> executed.ok,
              state |-> [locked.state EXCEPT !.token_balances = executed.state.token_balances],
              events |-> {},
              ret |-> [lock_id |-> locked.lock_id, amount_out |-> executed.amount_out]]

\* #[action(shortname = 0x02)]
instant_swap(sender, state, token_in, amount_in, amount_out_minimum) ==
    LET locked == lock_internal(state, amount_in, token_in, amount_out_minimum, sender)
        executed == execute_lock_swap_internal(locked.state, locked.lock_id, sender)
    IN  IF ~contract_pools_have_liquidity(state)
        THEN [ok |-> FALSE, state |-> state, events |-> {}, ret |-> NoReturn]
        ELSE IF ~locked.ok
        THEN [ok |-> FALSE, state |-> locked.state, events |-> {}, ret |-> NoReturn]
        ELSE [ok |-> executed.ok, state |-> executed.state, events |-> {},
              ret |-> [lock_id |-> locked.lock_id, amount_out |-> executed.amount_out]]

\* #[action(shortname = 0x03)]
\* withdraw that issues the transfer and leaves the debit to the settlement.
withdraw_without_debit(sender, state, token_address, amount, wait_for_callback) ==
    LET tokens == deduce_tokens_in_out(state.token_balances, token_address)
    IN  IF ~tokens.ok
           \/ get_amount_of(get_balance_for(state.token_balances, sender),
                            tokens.tokens.token_in) < amount
        THEN [ok |-> FALSE, state |-> state, events |-> {}, ret |-> NoReturn]
        ELSE [ok |-> TRUE, state |-> state,
              events |-> {[callback |-> IF wait_for_callback
                                         THEN "wait_withdraw_callback" ELSE "none",
                           sender |-> sender, token_address |-> token_address,
                           token |-> tokens.tokens.token_in, amount |-> amount]},
              ret |-> NoReturn]

withdraw(sender, state, token_address, amount, wait_for_callback) ==
    LET tokens == deduce_tokens_in_out(state.token_balances, token_address)
        deducted == deduct_from_token_balance(state.token_balances, sender,
                                              tokens.tokens.token_in, amount)
    IN  IF ~tokens.ok \/ ~deducted.ok
        THEN [ok |-> FALSE, state |-> state, events |-> {}, ret |-> NoReturn]
        ELSE [ok |-> TRUE,
              state |-> [state EXCEPT !.token_balances = deducted.token_balances],
              events |-> {[callback |-> IF wait_for_callback
                                         THEN "wait_withdraw_callback" ELSE "none",
                           sender |-> sender, token_address |-> token_address,
                           token |-> tokens.tokens.token_in, amount |-> amount]},
              ret |-> NoReturn]

\* wait_withdraw_callback that waives the swap fee.
wait_withdraw_callback_waives_fee(state) ==
    [ok |-> TRUE, state |-> [state EXCEPT !.swap_fee_per_mille = 0], events |-> {},
     ret |-> NoReturn]

\* #[callback(shortname = 0x15)]
wait_withdraw_callback(state) ==
    [ok |-> TRUE, state |-> state, events |-> {}, ret |-> NoReturn]

\* provide_liquidity that prices off the virtual reserves.
provide_liquidity_virtual(sender, state, token_address, amount) ==
    LET tokens == deduce_tokens_in_out(state.token_balances, token_address)
        contract_token_balance ==
            get_balance_for(state.token_balances, state.liquidity_pool_address)
        virtual_balance == virtual_liquidity_pools(state.virtual_state,
                                                   contract_token_balance.a_tokens,
                                                   contract_token_balance.b_tokens)
        calculated == calculate_equivalent_and_minted_tokens(
            amount,
            get_amount_of(virtual_balance.balance, tokens.tokens.token_in),
            get_amount_of(virtual_balance.balance, tokens.tokens.token_out),
            contract_token_balance.liquidity_tokens)
        provided == provide_liquidity_internal(state, sender, tokens.tokens, amount,
                                               calculated.equivalent, calculated.minted)
    IN  IF ~tokens.ok \/ ~virtual_balance.ok \/ ~calculated.ok \/ ~(calculated.minted > 0)
        THEN [ok |-> FALSE, state |-> state, events |-> {}, ret |-> NoReturn]
        ELSE [ok |-> provided.ok, state |-> provided.state, events |-> {}, ret |-> NoReturn]

\* #[action(shortname = 0x04)]
provide_liquidity(sender, state, token_address, amount) ==
    LET tokens == deduce_tokens_in_out(state.token_balances, token_address)
        contract_token_balance ==
            get_balance_for(state.token_balances, state.liquidity_pool_address)
        calculated == calculate_equivalent_and_minted_tokens(
            amount,
            get_amount_of(contract_token_balance, tokens.tokens.token_in),
            get_amount_of(contract_token_balance, tokens.tokens.token_out),
            contract_token_balance.liquidity_tokens)
        provided == provide_liquidity_internal(state, sender, tokens.tokens, amount,
                                               calculated.equivalent, calculated.minted)
    IN  IF ~tokens.ok \/ ~calculated.ok \/ ~(calculated.minted > 0)
        THEN [ok |-> FALSE, state |-> state, events |-> {}, ret |-> NoReturn]
        ELSE [ok |-> provided.ok, state |-> provided.state, events |-> {}, ret |-> NoReturn]

\* #[action(shortname = 0x05)]
reclaim_liquidity(sender, state, liquidity_token_amount) ==
    LET deducted == deduct_from_token_balance(state.token_balances, sender,
                                              LIQUIDITY, liquidity_token_amount)
        contract_token_balance ==
            get_balance_for(deducted.token_balances, state.liquidity_pool_address)
        output == calculate_reclaim_output(liquidity_token_amount,
                                           contract_token_balance.a_tokens,
                                           contract_token_balance.b_tokens,
                                           contract_token_balance.liquidity_tokens)
        moved_a == move_tokens(deducted.token_balances, state.liquidity_pool_address,
                               sender, TokenA, output.a_output)
        moved_b == move_tokens(moved_a.token_balances, state.liquidity_pool_address,
                               sender, TokenB, output.b_output)
        burned == deduct_from_token_balance(moved_b.token_balances,
                                            state.liquidity_pool_address,
                                            LIQUIDITY, liquidity_token_amount)
        with(token_balances) == [state EXCEPT !.token_balances = token_balances]
    IN  IF ~any_locked_liquidity(state.virtual_state) \/ ~deducted.ok
        THEN [ok |-> FALSE, state |-> state, events |-> {}, ret |-> NoReturn]
        ELSE IF ~output.ok \/ ~moved_a.ok
        THEN [ok |-> FALSE, state |-> with(deducted.token_balances),
              events |-> {}, ret |-> NoReturn]
        ELSE IF ~moved_b.ok
        THEN [ok |-> FALSE, state |-> with(moved_a.token_balances),
              events |-> {}, ret |-> NoReturn]
        ELSE IF ~burned.ok
        THEN [ok |-> FALSE, state |-> with(moved_b.token_balances),
              events |-> {}, ret |-> NoReturn]
        ELSE [ok |-> TRUE, state |-> with(burned.token_balances),
              events |-> {}, ret |-> NoReturn]

\* #[action(shortname = 0x06)]
provide_initial_liquidity(sender, state, token_a_amount, token_b_amount) ==
    LET minted_liquidity_tokens == initial_liquidity_tokens(token_a_amount, token_b_amount)
        provided == provide_liquidity_internal(state, sender, A_IN_B_OUT, token_a_amount,
                                               token_b_amount, minted_liquidity_tokens)
    IN  IF contract_pools_have_liquidity(state) \/ ~(minted_liquidity_tokens > 0)
        THEN [ok |-> FALSE, state |-> state, events |-> {}, ret |-> NoReturn]
        ELSE [ok |-> provided.ok, state |-> provided.state, events |-> {}, ret |-> NoReturn]

\* acquire_swap_lock that reserves amount_in of the owner in the pool.
acquire_swap_lock_reserving(sender, state, token_in, amount_in, amount_out_minimum) ==
    LET locked == lock_internal(state, amount_in, token_in, amount_out_minimum, sender)
        tokens == deduce_tokens_in_out(state.token_balances, token_in)
        reserved == move_tokens(state.token_balances, sender, state.liquidity_pool_address,
                                tokens.tokens.token_in, amount_in)
    IN  IF \/ ~does_address_have_permission(state.permission_lock_swap, sender)
           \/ ~contract_pools_have_liquidity(state)
           \/ ~locked.ok
           \/ ~reserved.ok
        THEN [ok |-> FALSE, state |-> state, events |-> {}, ret |-> NoReturn]
        ELSE [ok |-> TRUE,
              state |-> [locked.state EXCEPT !.token_balances = reserved.token_balances],
              events |-> {},
              ret |-> [lock_id |-> locked.lock_id, amount_out |-> locked.amount_out]]

\* #[action(shortname = 0x07)]
acquire_swap_lock(sender, state, token_in, amount_in, amount_out_minimum) ==
    LET locked == lock_internal(state, amount_in, token_in, amount_out_minimum, sender)
    IN  IF ~does_address_have_permission(state.permission_lock_swap, sender)
        THEN [ok |-> FALSE, state |-> state, events |-> {}, ret |-> NoReturn]
        ELSE IF ~contract_pools_have_liquidity(state)
        THEN [ok |-> FALSE, state |-> state, events |-> {}, ret |-> NoReturn]
        ELSE IF ~locked.ok
        THEN [ok |-> FALSE, state |-> locked.state, events |-> {}, ret |-> NoReturn]
        ELSE [ok |-> TRUE, state |-> locked.state, events |-> {},
              ret |-> [lock_id |-> locked.lock_id, amount_out |-> locked.amount_out]]

\* #[action(shortname = 0x08)]
execute_lock_swap(sender, state, lock_id) ==
    LET executed == execute_lock_swap_internal(state, lock_id, sender)
    IN  [ok |-> executed.ok, state |-> executed.state, events |-> {},
         ret |-> [lock_id |-> lock_id, amount_out |-> executed.amount_out]]

\* #[action(shortname = 0x09)]
cancel_lock(sender, state, lock_id) ==
    LET removed == remove_lock(state.virtual_state, lock_id, sender)
    IN  [ok |-> removed.ok,
         state |-> [state EXCEPT !.virtual_state = removed.virtual_state],
         events |-> {}, ret |-> NoReturn]

(***************************************************************************)
(* token-v2/src/lib.rs: the token contract. In TokenSpec `state` is the    *)
(* TokenState. The results of the functions are [ok, state, overflowed]:   *)
(* ok = FALSE is a panic; overflowed tells that an unchecked addition      *)
(* exceeded the word, in which case a build with overflow checks panics    *)
(* and a build without them goes on with the wrapped value in `state`.     *)
(***************************************************************************)
\* The word of the token's u128 amounts, scaled down.
TokenBits == 2
TokenAmountMax == Pow2(TokenBits) - 1

TokenHolders == {"u1", Pool}

\* BalanceMap::insert_balance
insert_balance(map, key, value) ==
    LET zero == value - value
    IN  IF value = zero THEN MapRemove(map, key) ELSE MapInsert(map, key, value)

\* TokenState::balance_of
balance_of(self, owner) ==
    IF owner \in DOMAIN self.balances THEN self.balances[owner] ELSE 0

\* TokenState::allowance
allowance(self, owner, spender) ==
    LET key == [owner |-> owner, spender |-> spender]
    IN  IF key \in DOMAIN self.allowed THEN self.allowed[key] ELSE 0

\* TokenState::update_allowance
update_allowance(self, owner, spender, amount) ==
    [self EXCEPT !.allowed =
        insert_balance(self.allowed, [owner |-> owner, spender |-> spender], amount)]

\* TokenState::update_allowance_relative; u128::checked_add_signed fails
\* below 0 and above the largest amount.
update_allowance_relative(self, owner, spender, delta) ==
    LET existing_allowance == allowance(self, owner, spender)
        new_allowance == existing_allowance + delta
    IN  IF new_allowance < 0 \/ new_allowance > TokenAmountMax
        THEN [ok |-> FALSE, state |-> self, overflowed |-> FALSE]
        ELSE [ok |-> TRUE, state |-> update_allowance(self, owner, spender, new_allowance),
              overflowed |-> FALSE]

\* #[init] of the token contract.
TokenState_initialize(sender, total_supply) ==
    [owner |-> sender,
     total_supply |-> total_supply,
     balances |-> insert_balance(EmptyMap, sender, total_supply),
     allowed |-> EmptyMap]

\* core_transfer that reads the receiver's balance before it deducts from
\* the sender.
core_transfer_stale_receiver(sender, state, to, amount) ==
    LET from_amount == balance_of(state, sender)
        to_amount == balance_of(state, to)
        deducted == [state EXCEPT !.balances =
                        insert_balance(state.balances, sender, from_amount - amount)]
    IN  IF from_amount < amount
        THEN [ok |-> FALSE, state |-> state, overflowed |-> FALSE]
        ELSE [ok |-> TRUE,
              state |-> [deducted EXCEPT !.balances =
                            insert_balance(deducted.balances, to,
                                           (to_amount + amount) % (TokenAmountMax + 1))],
              overflowed |-> to_amount + amount > TokenAmountMax]

core_transfer(sender, state, to, amount) ==
    LET from_amount == balance_of(state, sender)
        deducted == [state EXCEPT !.balances =
                        insert_balance(state.balances, sender, from_amount - amount)]
        to_amount == balance_of(deducted, to)
    IN  IF from_amount < amount
        THEN [ok |-> FALSE, state |-> state, overflowed |-> FALSE]
        ELSE [ok |-> TRUE,
              state |-> [deducted EXCEPT !.balances =
                            insert_balance(deducted.balances, to,
                                           (to_amount + amount) % (TokenAmountMax + 1))],
              overflowed |-> to_amount + amount > TokenAmountMax]

core_transfer_from(sender, state, from, to, amount) ==
    LET from_allowed == allowance(state, from, sender)
    IN  IF from_allowed < amount
        THEN [ok |-> FALSE, state |-> state, overflowed |-> FALSE]
        ELSE core_transfer(from, update_allowance(state, from, sender, from_allowed - amount),
                           to, amount)

\* #[action(shortname = 0x01)]
transfer(sender, state, to, amount) == core_transfer(sender, state, to, amount)

\* #[action(shortname = 0x02)]: `for t in transfers`, from transfers[i] on.
RECURSIVE bulk_transfer_loop(_, _, _, _)
bulk_transfer_loop(sender, state, transfers, i) ==
    IF i > Len(transfers)
    THEN [ok |-> TRUE, state |-> state, overflowed |-> FALSE]
    ELSE LET one == core_transfer(sender, state, transfers[i].to, transfers[i].amount)
             rest == bulk_transfer_loop(sender, one.state, transfers, i + 1)
         IN  IF ~one.ok THEN one
             ELSE [rest EXCEPT !.overflowed = one.overflowed \/ rest.overflowed]

bulk_transfer(sender, state, transfers) == bulk_transfer_loop(sender, state, transfers, 1)

\* #[action(shortname = 0x03)]
transfer_from(sender, state, from, to, amount) ==
    core_transfer_from(sender, state, from, to, amount)

\* #[action(shortname = 0x04)]
RECURSIVE bulk_transfer_from_loop(_, _, _, _, _)
bulk_transfer_from_loop(sender, state, from, transfers, i) ==
    IF i > Len(transfers)
    THEN [ok |-> TRUE, state |-> state, overflowed |-> FALSE]
    ELSE LET one == core_transfer_from(sender, state, from, transfers[i].to,
                                       transfers[i].amount)
             rest == bulk_transfer_from_loop(sender, one.state, from, transfers, i + 1)
         IN  IF ~one.ok THEN one
             ELSE [rest EXCEPT !.overflowed = one.overflowed \/ rest.overflowed]

bulk_transfer_from(sender, state, from, transfers) ==
    bulk_transfer_from_loop(sender, state, from, transfers, 1)

\* #[action(shortname = 0x05)]
approve(sender, state, spender, amount) ==
    [ok |-> TRUE, state |-> update_allowance(state, sender, spender, amount),
     overflowed |-> FALSE]

\* #[action(shortname = 0x07)]
approve_relative(sender, state, spender, delta) ==
    update_allowance_relative(state, sender, spender, delta)

(***************************************************************************)
(* The state machine: the chain delivers one invocation at a time.         *)
(***************************************************************************)
VARIABLES
    state,      \* the persisted LiquiditySwapContractState
    pending,    \* bag of event groups issued by the contract and not yet settled
    last,       \* the last invocation: its name and whether it succeeded
    external,   \* per reserve token: the pool's balance in the token contract
    kept        \* per reserve token: the sum of the withdraw transfers that failed

vars == <<state, pending, last, external, kept>>

\* The token contract's core_transfer as it acts on the pool's balance: the
\* pool sends amount (panics on insufficient funds) or receives amount.
core_transfer_from_pool(balance, amount) ==
    IF balance < amount
    THEN [ok |-> FALSE, balance |-> balance]
    ELSE [ok |-> TRUE, balance |-> balance - amount]

core_transfer_to_pool(balance, amount) == balance + amount

\* An address that is not one of the two reserve token contracts.
OtherAddress == "other"

Anybody == [anybody |-> TRUE, addresses |-> {}]
Specific(addresses) == [anybody |-> FALSE, addresses |-> addresses]

\* Total of `token` over the holders `holders` of the internal ledger.
RECURSIVE LedgerSumOver(_, _, _)
LedgerSumOver(token_balances, token, holders) ==
    IF holders = {} THEN 0
    ELSE LET holder == CHOOSE h \in holders : TRUE
         IN  get_amount_of(get_balance_for(token_balances, holder), token)
               + LedgerSumOver(token_balances, token, holders \ {holder})

LedgerSum(token_balances, token) ==
    LedgerSumOver(token_balances, token, DOMAIN token_balances.balances)

\* Total of `token` in the deposits among the event groups `events` of `bag`.
RECURSIVE PendingDepositsOver(_, _, _)
PendingDepositsOver(bag, token, events) ==
    IF events = {} THEN 0
    ELSE LET event == CHOOSE e \in events : TRUE
         IN  (IF event.callback = "deposit_callback" /\ event.token = token
              THEN event.amount * CopiesIn(event, bag) ELSE 0)
               + PendingDepositsOver(bag, token, events \ {event})

PendingDeposits(token) == PendingDepositsOver(pending, token, BagToSet(pending))

\* The inputs the environment draws from: the general ones, bounded by the
\* bounds above, ...
Inputs ==
    [configs |-> {[fee |-> 0, permission |-> Anybody],
                  [fee |-> 3, permission |-> Specific({"u1"})]},
     users |-> Users,
     token_addresses |-> TokenAddresses \cup {OtherAddress},
     amounts |-> 0..MaxSupply,
     lock_amounts |-> 0..MaxSupply,
     minimums |-> {0, 1},
     max_locks |-> MaxLocks,
     max_supply_a |-> MaxSupply,
     max_supply_b |-> MaxSupply,
     max_pending |-> MaxPending,
     serial |-> TRUE,
     transfer_may_fail |-> FALSE]

\* ... and those of a pool of 3 A and 1 B whose locks are all acquired by
\* callers that hold the funds to execute them.
DeepMaxLocks == 3
DeepSupplyA == 3
DeepSupplyB == 5

DeepInputs ==
    [configs |-> {[fee |-> 0, permission |-> Anybody]},
     users |-> {"u1"},
     token_addresses |-> TokenAddresses,
     amounts |-> {1, 2, 3},
     lock_amounts |-> {2, 6},
     minimums |-> {0},
     max_locks |-> DeepMaxLocks,
     max_supply_a |-> DeepSupplyA,
     max_supply_b |-> DeepSupplyB,
     max_pending |-> MaxPending,
     serial |-> TRUE,
     transfer_may_fail |-> FALSE]

InitWith(in) ==
    /\ \E config \in in.configs :
          state = initialize(Pool, TokenAAddress, TokenBAddress,
                             config.fee, config.permission).state
    /\ pending = EmptyBag
    /\ last = [op |-> "initialize", lock_id |-> NoLockId]
    /\ external = [token \in ReserveTokens |-> 0]
    /\ kept = [token \in ReserveTokens |-> 0]

\* The chain commits the state and the event groups of a successful
\* invocation and discards those of a failed one, which leaves no trace.
\* The contract state after an invocation that started in `before` and ended
\* as `result`: that of a panicking handler never leaves the handler.
\* transaction_outcome that stores whatever state the handler had reached.
transaction_outcome_partial(before, result) == result.state

transaction_outcome(before, result) == IF result.ok THEN result.state ELSE before

Commit(op, lock_id, result) ==
    /\ state' = transaction_outcome(state, result)
    /\ pending' = IF result.ok THEN pending (+) SetToBag(result.events) ELSE pending
    /\ last' = IF result.ok THEN [op |-> op, lock_id |-> lock_id] ELSE last
    /\ UNCHANGED <<external, kept>>

\* With in.serial the chain settles the event groups of an invocation before
\* it delivers the next invocation.
Ready(in) == in.serial => pending = EmptyBag

Deposit(in) ==
    \E sender \in in.users, token_address \in in.token_addresses, amount \in in.amounts :
        LET result == deposit(sender, state, token_address, amount)
        IN  /\ BagCardinality(pending) < in.max_pending
            /\ result.ok =>
                 \A event \in result.events :
                    external[event.token] + PendingDeposits(event.token) + amount
                        <= (IF event.token = TokenA THEN in.max_supply_a ELSE in.max_supply_b)
            /\ Commit("deposit", NoLockId, result)

\* The token contract has carried out (success) or rejected the transfer_from
\* of a deposit (the depositor's funds and allowance decide), and the callback
\* runs.
DepositCallbackOf(event) ==
    \E success \in BOOLEAN :
        /\ BagIn(event, pending)
        /\ event.callback = "deposit_callback"
        /\ LET result == deposit_callback(event.sender, success, state,
                                          event.token, event.amount)
           IN  /\ state' = IF result.ok THEN result.state ELSE state
               /\ pending' = pending (-) SetToBag({event})
               /\ last' = IF result.ok
                           THEN [op |-> "deposit_callback", lock_id |-> NoLockId]
                           ELSE last
               /\ external' = IF success
                               THEN [external EXCEPT ![event.token] =
                                        core_transfer_to_pool(@, event.amount)]
                               ELSE external
               /\ kept' = kept

DepositCallback ==
    \E event \in BagToSet(pending) : DepositCallbackOf(event)

Withdraw(in) ==
    \E sender \in in.users, token_address \in in.token_addresses,
       amount \in in.amounts, wait_for_callback \in BOOLEAN :
        /\ BagCardinality(pending) < in.max_pending
        /\ Commit("withdraw", NoLockId,
                  withdraw(sender, state, token_address, amount, wait_for_callback))

\* The token contract has carried out the transfer of a withdraw, or the
\* transfer has failed (insufficient funds of the pool; with
\* in.transfer_may_fail also for a reason of the token contract or of the gas
\* given to the call); the callback runs when the withdraw asked for it.
WithdrawSettled(in) ==
    \E event \in BagToSet(pending), success \in BOOLEAN :
        LET transferred == core_transfer_from_pool(external[event.token], event.amount)
            result == wait_withdraw_callback(state)
        IN  /\ event.callback \in {"wait_withdraw_callback", "none"}
            /\ success => transferred.ok
            /\ ~success => in.transfer_may_fail \/ ~transferred.ok
            /\ state' = IF event.callback = "none" THEN state ELSE result.state
            /\ pending' = pending (-) SetToBag({event})
            /\ last' = [op |-> "wait_withdraw_callback", lock_id |-> NoLockId]
            /\ external' = IF success
                            THEN [external EXCEPT ![event.token] = transferred.balance]
                            ELSE external
            /\ kept' = IF success THEN kept
                        ELSE [kept EXCEPT ![event.token] = @ + event.amount]

InstantSwap(in) ==
    \E sender \in in.users, token_in \in in.token_addresses, amount_in \in in.lock_amounts,
       amount_out_minimum \in in.minimums :
        /\ Ready(in)
        /\ state.virtual_state.next_lock_id < in.max_locks
        /\ LET result == instant_swap(sender, state, token_in, amount_in,
                                      amount_out_minimum)
           IN  Commit("instant_swap", result.ret.lock_id, result)

ProvideLiquidity(in) ==
    \E sender \in in.users, token_address \in in.token_addresses, amount \in in.amounts :
        /\ Ready(in)
        /\ Commit("provide_liquidity", NoLockId,
                  provide_liquidity(sender, state, token_address, amount))

ReclaimLiquidity(in) ==
    \E sender \in in.users, liquidity_token_amount \in in.amounts :
        /\ Ready(in)
        /\ Commit("reclaim_liquidity", NoLockId,
                  reclaim_liquidity(sender, state, liquidity_token_amount))

ProvideInitialLiquidity(in) ==
    \E sender \in in.users, token_a_amount \in in.amounts, token_b_amount \in in.amounts :
        /\ Ready(in)
        /\ Commit("provide_initial_liquidity", NoLockId,
               provide_initial_liquidity(sender, state, token_a_amount, token_b_amount))

AcquireSwapLock(in) ==
    \E sender \in in.users, token_in \in in.token_addresses, amount_in \in in.lock_amounts,
       amount_out_minimum \in in.minimums :
        /\ Ready(in)
        /\ state.virtual_state.next_lock_id < in.max_locks
        /\ LET result == acquire_swap_lock(sender, state, token_in, amount_in,
                                           amount_out_minimum)
           IN  Commit("acquire_swap_lock", result.ret.lock_id, result)

ExecuteLockSwap(in) ==
    \E sender \in in.users, lock_id \in 0..(in.max_locks - 1) :
        /\ Ready(in)
        /\ Commit("execute_lock_swap", lock_id, execute_lock_swap(sender, state, lock_id))

CancelLock(in) ==
    \E sender \in in.users, lock_id \in 0..(in.max_locks - 1) :
        /\ Ready(in)
        /\ Commit("cancel_lock", lock_id, cancel_lock(sender, state, lock_id))

NextWith(in) ==
    \/ Deposit(in)
    \/ DepositCallback
    \/ Withdraw(in)
    \/ WithdrawSettled(in)
    \/ InstantSwap(in)
    \/ ProvideLiquidity(in)
    \/ ReclaimLiquidity(in)
    \/ ProvideInitialLiquidity(in)
    \/ AcquireSwapLock(in)
    \/ ExecuteLockSwap(in)
    \/ CancelLock(in)

Init == InitWith(Inputs)
Next == NextWith(Inputs)
Spec == Init /\ [][Next]_vars

DeepInit == InitWith(DeepInputs)
DeepNext == NextWith(DeepInputs)
DeepSpec == DeepInit /\ [][DeepNext]_vars

\* ... and those of the contract with token contracts whose transfers settle
\* late, in any order, or fail, while further invocations are delivered.
LedgerMaxLocks == 1
LedgerSupplyA == 2
LedgerSupplyB == 3
LedgerMaxPending == 2

LedgerInputs ==
    [configs |-> {[fee |-> 0, permission |-> Anybody]},
     users |-> Users,
     token_addresses |-> TokenAddresses,
     amounts |-> 1..LedgerSupplyA,
     lock_amounts |-> {1},
     minimums |-> {0},
     max_locks |-> LedgerMaxLocks,
     max_supply_a |-> LedgerSupplyA,
     max_supply_b |-> LedgerSupplyB,
     max_pending |-> LedgerMaxPending,
     serial |-> FALSE,
     transfer_may_fail |-> TRUE]

LedgerInit == InitWith(LedgerInputs)
LedgerNext == NextWith(LedgerInputs)
LedgerSpec == LedgerInit /\ [][LedgerNext]_vars

\* ... and those of a single caller with 2 A and 6 B, enough to provide
\* liquidity a second time after the locks have emptied one reserve.
DrainMaxLocks == 3
DrainSupplyA == 2
DrainSupplyB == 6

DrainInputs ==
    [configs |-> {[fee |-> 0, permission |-> Anybody]},
     users |-> {"u1"},
     token_addresses |-> TokenAddresses,
     amounts |-> {1, 2, 3},
     lock_amounts |-> {2},
     minimums |-> {0},
     max_locks |-> DrainMaxLocks,
     max_supply_a |-> DrainSupplyA,
     max_supply_b |-> DrainSupplyB,
     max_pending |-> MaxPending,
     serial |-> TRUE,
     transfer_may_fail |-> FALSE]

DrainInit == InitWith(DrainInputs)
DrainNext == NextWith(DrainInputs)
DrainSpec == DrainInit /\ [][DrainNext]_vars

(***************************************************************************)
(* The pure functions, applied to inputs over the whole range of           *)
(* TokenAmount. `last` is the call: the function, its arguments and, once  *)
(* applied, its outcomes; the contract is not touched.                     *)
(***************************************************************************)
\* Amounts from both ends and the middle of the range of TokenAmount.
MathAmounts == {0, 1, 2, 3, 4, 5, 8, 64, 1000, 2048, AmountMax - 1, AmountMax}

\* The output reserves of the quotes.
MathSmallAmounts == {0, 1, 2, 3, 4, 5, 8, 64}

\* Fees per mille from both ends of ALLOWED_FEE_PER_MILLE.
MathFees == {0, 3, 500, 999, 1000}

MathCalls ==
    [op : {"calculate_swap_to_amount"}, pool_token_in : MathAmounts,
     pool_token_out : MathSmallAmounts, swap_amount_in : MathAmounts,
     swap_fee_per_mille : MathFees, applied : {FALSE}, outcomes : {{}}]
      \cup [op : {"calculate_equivalent_and_minted_tokens"}, token_in_amount : MathAmounts,
            token_in_pool : MathAmounts, token_out_pool : MathAmounts,
            total_minted_liquidity : MathAmounts, applied : {FALSE}, outcomes : {{}}]
      \cup [op : {"u128_sqrt"}, input : 0..AmountMax, low : {0}, high : {u128_sqrt_high},
            applied : {FALSE}, outcomes : {{}}]

MathInit ==
    /\ state = initialize(Pool, TokenAAddress, TokenBAddress, 0, Anybody).state
    /\ pending = EmptyBag
    /\ external = [token \in ReserveTokens |-> 0]
    /\ kept = [token \in ReserveTokens |-> 0]
    /\ last \in MathCalls

Applied(outcomes) ==
    /\ last' = [last EXCEPT !.applied = TRUE, !.outcomes = outcomes]
    /\ UNCHANGED <<state, pending, external, kept>>

CalculateSwapToAmount ==
    /\ last.op = "calculate_swap_to_amount"
    /\ ~last.applied
    /\ Applied(calculate_swap_to_amount_outcomes(
                   last.pool_token_in, last.pool_token_out, last.swap_amount_in,
                   last.swap_fee_per_mille))

CalculateEquivalentAndMintedTokens ==
    /\ last.op = "calculate_equivalent_and_minted_tokens"
    /\ ~last.applied
    /\ Applied(calculate_equivalent_and_minted_tokens_outcomes(
                   last.token_in_amount, last.token_in_pool, last.token_out_pool,
                   last.total_minted_liquidity))

\* One iteration of `while low != high - 1`.
U128SqrtStep ==
    /\ last.op = "u128_sqrt"
    /\ ~last.applied
    /\ last.low # last.high - 1
    /\ LET next == u128_sqrt_step(last.input, last.low, last.high)
       IN  last' = [last EXCEPT !.low = next.low, !.high = next.high]
    /\ UNCHANGED <<state, pending, external, kept>>

\* The loop has ended: `low.try_into().unwrap()`, which aborts when low does
\* not fit in u64.
U128SqrtReturn ==
    /\ last.op = "u128_sqrt"
    /\ ~last.applied
    /\ last.low = last.high - 1
    /\ Applied({[ok |-> last.low <= HalfMax, value |-> last.low]})

MathNext ==
    \/ CalculateSwapToAmount
    \/ CalculateEquivalentAndMintedTokens
    \/ U128SqrtStep
    \/ U128SqrtReturn

MathSpec == MathInit /\ [][MathNext]_vars

(***************************************************************************)
(* A swap there and back, as the test generic_test_calculate_swap_to_amount*)
(* makes it: amount_in of A is quoted against (reserve_a, reserve_b), and  *)
(* the B received is quoted back against the reserves after the first      *)
(* swap. `last` is the round trip: its arguments, how far it has come, and *)
(* the quotes made so far.                                                 *)
(***************************************************************************)
RoundTripCalls ==
    [op : {"round_trip"}, reserve_a : MathAmounts \ {0}, reserve_b : MathAmounts \ {0},
     amount_in : MathAmounts, swap_fee_per_mille : MathFees,
     swapped : {"nothing"}, ok : {TRUE}, output_b : {0}, output_a : {0}]

RoundTripInit ==
    /\ state = initialize(Pool, TokenAAddress, TokenBAddress, 0, Anybody).state
    /\ pending = EmptyBag
    /\ external = [token \in ReserveTokens |-> 0]
    /\ kept = [token \in ReserveTokens |-> 0]
    /\ last \in RoundTripCalls

\* calculate_swap_to_amount(a_pool, b_pool, input_a, fee)
SwapThere ==
    /\ last.swapped = "nothing"
    /\ \E quote \in calculate_swap_to_amount_outcomes(
                        last.reserve_a, last.reserve_b, last.amount_in,
                        last.swap_fee_per_mille) :
          last' = [last EXCEPT !.swapped = "there", !.ok = quote.ok,
                               !.output_b = quote.amount]
    /\ UNCHANGED <<state, pending, external, kept>>

\* calculate_swap_to_amount(b_pool - output_b, a_pool + input_a, output_b, fee),
\* when the reserves after the first swap exist.
SwapBack ==
    /\ last.swapped = "there"
    /\ last.ok
    /\ last.output_b <= last.reserve_b
    /\ last.reserve_a + last.amount_in <= AmountMax
    /\ \E quote \in calculate_swap_to_amount_outcomes(
                        last.reserve_b - last.output_b, last.reserve_a + last.amount_in,
                        last.output_b, last.swap_fee_per_mille) :
          last' = [last EXCEPT !.swapped = "back", !.ok = quote.ok,
                               !.output_a = quote.amount]
    /\ UNCHANGED <<state, pending, external, kept>>

RoundTripNext ==
    \/ SwapThere
    \/ SwapBack

RoundTripSpec == RoundTripInit /\ [][RoundTripNext]_vars

(***************************************************************************)
(* The contract under a chain that runs the callback of every event group  *)
(* it was handed: invocations interleave with the callbacks, and no two    *)
(* deposits with the same sender, token and amount are in flight at once,  *)
(* so that each deposit can be told from the others.                       *)
(***************************************************************************)
FairMaxLocks == 1
FairSupply == 2
FairMaxPending == 2

FairInputs ==
    [configs |-> {[fee |-> 0, permission |-> Anybody]},
     users |-> {"u1"},
     token_addresses |-> TokenAddresses,
     amounts |-> {1, 2},
     lock_amounts |-> {1},
     minimums |-> {0},
     max_locks |-> FairMaxLocks,
     max_supply_a |-> FairSupply,
     max_supply_b |-> FairSupply,
     max_pending |-> FairMaxPending,
     serial |-> FALSE,
     transfer_may_fail |-> FALSE]

\* The event groups that deposit issues.
FairDepositEvents ==
    UNION {deposit(sender, initialize(Pool, TokenAAddress, TokenBAddress, 0, Anybody).state,
                   token_address, amount).events :
             sender \in FairInputs.users, token_address \in FairInputs.token_addresses,
             amount \in FairInputs.amounts}

FairInit == InitWith(FairInputs)

FairDeposit ==
    /\ Deposit(FairInputs)
    /\ \A event \in FairDepositEvents : CopiesIn(event, pending') <= 1

FairNext ==
    \/ FairDeposit
    \/ DepositCallback
    \/ Withdraw(FairInputs)
    \/ WithdrawSettled(FairInputs)
    \/ InstantSwap(FairInputs)
    \/ ProvideLiquidity(FairInputs)
    \/ ReclaimLiquidity(FairInputs)
    \/ ProvideInitialLiquidity(FairInputs)
    \/ AcquireSwapLock(FairInputs)
    \/ ExecuteLockSwap(FairInputs)
    \/ CancelLock(FairInputs)

\* Every callback that is due is eventually run.
FairCallbacks == \A event \in FairDepositEvents : WF_vars(DepositCallbackOf(event))

FairSpec == FairInit /\ [][FairNext]_vars /\ FairCallbacks

(***************************************************************************)
(* The deployment: `last` starts as the call of the constructor, and the   *)
(* contract exists, and takes invocations, once initialize has returned.   *)
(***************************************************************************)
\* The contract state of an address that holds no contract.
NoContract == [deployed |-> FALSE]

\* swap_fee_per_mille is a u16: both ends of the allowed range, the first
\* value above it and the largest one.
DeployFees == {0, 3, 1000, 1001, 65535}

\* Token addresses given to the constructor: the two token contracts and an
\* account.
DeployAddresses == TokenAddresses \cup {"u1"}

DeployMaxLocks == 1
DeploySupply == 2

DeployInputs ==
    [configs |-> {},
     users |-> {"u1"},
     token_addresses |-> TokenAddresses,
     amounts |-> {1, 2},
     lock_amounts |-> {1},
     minimums |-> {0},
     max_locks |-> DeployMaxLocks,
     max_supply_a |-> DeploySupply,
     max_supply_b |-> DeploySupply,
     max_pending |-> MaxPending,
     serial |-> TRUE,
     transfer_may_fail |-> FALSE]

DeployCalls ==
    [op : {"deploy"}, lock_id : {NoLockId}, contract_address : {Pool},
     token_a_address : DeployAddresses, token_b_address : DeployAddresses,
     swap_fee_per_mille : DeployFees, permission_lock_swap : {Anybody}]

DeployInit ==
    /\ state = NoContract
    /\ pending = EmptyBag
    /\ external = [token \in ReserveTokens |-> 0]
    /\ kept = [token \in ReserveTokens |-> 0]
    /\ last \in DeployCalls

\* #[init]: a constructor that panics creates no contract.
Initialize ==
    /\ last.op = "deploy"
    /\ LET result == initialize(last.contract_address, last.token_a_address,
                                last.token_b_address, last.swap_fee_per_mille,
                                last.permission_lock_swap)
       IN  /\ state' = IF result.ok THEN result.state ELSE state
           /\ last' = [last EXCEPT !.op = IF result.ok THEN "initialize"
                                          ELSE "initialize_failed"]
    /\ UNCHANGED <<pending, external, kept>>

Deployed == last.op \notin {"deploy", "initialize_failed"}

DeployNext ==
    \/ Initialize
    \/ Deployed /\ NextWith(DeployInputs)

DeploySpec == DeployInit /\ [][DeployNext]_vars

(***************************************************************************)
(* The token contract as a state machine.                                  *)
(***************************************************************************)
\* The arguments of the calls: every amount of the word, every i128 delta
\* that can move an allowance within the word, and the lists of at most
\* TokenMaxBulk transfers of the smallest or the largest non-zero amount.
TokenMaxBulk == 2
TokenTransfers == [to : TokenHolders, amount : {1, TokenAmountMax}]
TokenBulks == UNION {[1..n -> TokenTransfers] : n \in 0..TokenMaxBulk}

\* Whether the call transfers a non-zero amount from an address to itself.
ToSelf(from, transfers) ==
    \E i \in DOMAIN transfers : transfers[i].to = from /\ transfers[i].amount > 0

TokenInit ==
    /\ \E total_supply \in 0..TokenAmountMax :
          state = TokenState_initialize("u1", total_supply)
    /\ pending = EmptyBag
    /\ last = [op |-> "initialize", lock_id |-> NoLockId, to_self |-> FALSE]
    /\ external = [token \in ReserveTokens |-> 0]
    /\ kept = [token \in ReserveTokens |-> 0]

\* The builds a call can tell apart: with and without overflow checks when an
\* addition overflowed in it.
Builds(result) == IF result.overflowed THEN BOOLEAN ELSE {TRUE}

\* The chain commits the state of a call that returns and discards that of
\* a call that panics; a call in which an addition overflowed panics in a
\* build with overflow checks and returns in a build without.
TokenCommit(op, to_self, result, overflow_checks) ==
    LET returned == result.ok /\ ~(result.overflowed /\ overflow_checks)
    IN  /\ state' = IF returned THEN result.state ELSE state
        /\ last' = IF returned
                    THEN [op |-> op, lock_id |-> NoLockId, to_self |-> to_self]
                    ELSE last
        /\ UNCHANGED <<pending, external, kept>>

TokenTransfer ==
    \E sender \in TokenHolders, to \in TokenHolders, amount \in 0..TokenAmountMax :
        LET result == transfer(sender, state, to, amount)
        IN  \E overflow_checks \in Builds(result) :
                TokenCommit("transfer", sender = to /\ amount > 0, result, overflow_checks)

TokenBulkTransfer ==
    \E sender \in TokenHolders, transfers \in TokenBulks :
        LET result == bulk_transfer(sender, state, transfers)
        IN  \E overflow_checks \in Builds(result) :
                TokenCommit("bulk_transfer", ToSelf(sender, transfers), result,
                            overflow_checks)

TokenTransferFrom ==
    \E sender \in TokenHolders, from \in TokenHolders, to \in TokenHolders,
       amount \in 0..TokenAmountMax :
        LET result == transfer_from(sender, state, from, to, amount)
        IN  \E overflow_checks \in Builds(result) :
                TokenCommit("transfer_from", from = to /\ amount > 0, result,
                            overflow_checks)

TokenBulkTransferFrom ==
    \E sender \in TokenHolders, from \in TokenHolders, transfers \in TokenBulks :
        LET result == bulk_transfer_from(sender, state, from, transfers)
        IN  \E overflow_checks \in Builds(result) :
                TokenCommit("bulk_transfer_from", ToSelf(from, transfers), result,
                            overflow_checks)

TokenApprove ==
    \E sender \in TokenHolders, spender \in TokenHolders, amount \in 0..TokenAmountMax :
        LET result == approve(sender, state, spender, amount)
        IN  \E overflow_checks \in Builds(result) :
                TokenCommit("approve", FALSE, result, overflow_checks)

TokenApproveRelative ==
    \E sender \in TokenHolders, spender \in TokenHolders,
       delta \in (0 - TokenAmountMax)..TokenAmountMax :
        LET result == approve_relative(sender, state, spender, delta)
        IN  \E overflow_checks \in Builds(result) :
                TokenCommit("approve_relative", FALSE, result, overflow_checks)

TokenNext ==
    \/ TokenTransfer
    \/ TokenBulkTransfer
    \/ TokenTransferFrom
    \/ TokenBulkTransferFrom
    \/ TokenApprove
    \/ TokenApproveRelative

TokenSpec == TokenInit /\ [][TokenNext]_vars

(***************************************************************************)
(* Views of the state used by the properties.                              *)
(***************************************************************************)
Locks == state.virtual_state.locks
OutstandingIds == DOMAIN Locks
NextLockId == state.virtual_state.next_lock_id

\* delta[token]: the virtual adjustment.
Delta(token) == lock_liquidity_amount_of(state.virtual_state.lock_liquidity, token)

\* The pool's balance of `token` on the internal ledger.
ActualReserve(token) ==
    get_amount_of(get_balance_for(state.token_balances, Pool), token)

BalanceOf(contract_state, holder, token) ==
    get_amount_of(get_balance_for(contract_state.token_balances, holder), token)

\* Net effect on `token` of the locks `ids` of the lock map `locks`.
RECURSIVE NetOfLocks(_, _, _)
NetOfLocks(locks, ids, token) ==
    IF ids = {} THEN 0
    ELSE LET id == CHOOSE i \in ids : TRUE
             lock == locks[id]
         IN  (IF lock.tokens_in_out.token_in = token THEN lock.amount_in ELSE 0)
               - (IF lock.tokens_in_out.token_out = token THEN lock.amount_out ELSE 0)
               + NetOfLocks(locks, ids \ {id}, token)

\* floor((1000-fee)*amount_in*reserve_out / (1000*reserve_in + (1000-fee)*amount_in))
SwapQuote(reserve_in, reserve_out, amount_in, fee_per_mille) ==
    ((1000 - fee_per_mille) * amount_in * reserve_out)
        \div (1000 * reserve_in + (1000 - fee_per_mille) * amount_in)

Min(x, y) == IF x <= y THEN x ELSE y

C2_VirtualReservesNeverNegative ==
    /\ \A token \in ReserveTokens : ActualReserve(token) + Delta(token) >= 0
    /\ virtual_liquidity_pools(state.virtual_state,
                               ActualReserve(TokenA), ActualReserve(TokenB)).ok

(***************************************************************************)
(* C3: in every reachable state, for every outstanding lock whose owner    *)
(* holds at least amount_in of token_in, execute_lock_swap by the owner    *)
(* succeeds, returns the lock's amount_out and credits the owner exactly   *)
(* that amount of token_out.                                               *)
(***************************************************************************)
C3_LockIsGuarantee ==
    \A id \in OutstandingIds :
        LET lock == Locks[id]
            executed == execute_lock_swap(lock.owner, state, id)
        IN  BalanceOf(state, lock.owner, lock.tokens_in_out.token_in) >= lock.amount_in
            => /\ executed.ok
               /\ executed.ret.amount_out = lock.amount_out
               /\ BalanceOf(executed.state, lock.owner, lock.tokens_in_out.token_out)
                    = BalanceOf(state, lock.owner, lock.tokens_in_out.token_out)
                        + lock.amount_out

(***************************************************************************)
(* C4: each lock is consumed exactly once. A successful execute_lock_swap  *)
(* or cancel_lock removes the lock; execute_lock_swap and cancel_lock of   *)
(* an id that was handed out and is no longer outstanding fail for every   *)
(* caller; and such an id never becomes outstanding again.                 *)
(***************************************************************************)
C4_ConsumedLocksFail ==
    /\ last.op \in {"execute_lock_swap", "cancel_lock"} =>
          last.lock_id \notin OutstandingIds
    /\ \A id \in 0..(NextLockId - 1) :
          id \notin OutstandingIds =>
             \A sender \in Users :
                /\ ~execute_lock_swap(sender, state, id).ok
                /\ ~cancel_lock(sender, state, id).ok

C4_ConsumedStaysConsumed ==
    \A id \in 0..(NextLockId - 1) :
        id \notin OutstandingIds => id \notin OutstandingIds'

C4_LockConsumedOnce == []C4_ConsumedLocksFail /\ [][C4_ConsumedStaysConsumed]_vars

\* A lock was executed, another one was cancelled before it.
C4_Witness ==
    /\ last.op = "execute_lock_swap"
    /\ NextLockId >= 2
    /\ OutstandingIds = {}

(***************************************************************************)
(* C5: lock ids start at 0; acquire_swap_lock and instant_swap hand out    *)
(* the current next id and advance it by one; the next id never decreases, *)
(* nothing else advances it, every outstanding id is below it and a lock   *)
(* only ever appears under the id just handed out.                         *)
(***************************************************************************)
C5_IssuesLock ==
    /\ last'.op \in {"acquire_swap_lock", "instant_swap"}
    /\ last' # last \/ state' # state

C5_IdsBelowNext == \A id \in OutstandingIds : id < NextLockId

C5_Step ==
    /\ NextLockId' >= NextLockId
    /\ OutstandingIds' \ OutstandingIds \subseteq {NextLockId}
    /\ C5_IssuesLock => NextLockId' = NextLockId + 1 /\ last'.lock_id = NextLockId
    /\ NextLockId' # NextLockId => C5_IssuesLock

C5_LockIdsMonotonic ==
    /\ NextLockId = 0
    /\ []C5_IdsBelowNext
    /\ [][C5_Step]_vars

\* A lock was acquired after an earlier one had been consumed.
C5_Witness ==
    /\ last.op = "acquire_swap_lock"
    /\ last.lock_id >= 1
    /\ 0 \notin OutstandingIds
    /\ last.lock_id \in OutstandingIds

(***************************************************************************)
(* Arguments tried on the handlers in the properties below.                *)
(***************************************************************************)
ProbeAmounts == Inputs.lock_amounts \cup DeepInputs.lock_amounts
ProbeMinimums == Inputs.minimums
ProbeLockIds == 0..DeepMaxLocks

\* The reserve token deposited at `token_address`, and the opposite one.
TokenAt(token_address) == IF token_address = TokenAAddress THEN TokenA ELSE TokenB
Opposite(token) == IF token = TokenA THEN TokenB ELSE TokenA

(***************************************************************************)
(* C6: from any reachable state in which the chain delivers an invocation, *)
(* a successful acquire_swap_lock followed                                 *)
(* at once by cancel_lock of the returned id by the same caller succeeds   *)
(* and gives back the state before the acquisition (the adjustment, hence  *)
(* the virtual reserves, the other locks and the ledger) except that the   *)
(* next lock id has advanced by one.                                       *)
(***************************************************************************)
C6_AcquireCancelRestores ==
    Ready(Inputs) =>
    \A sender \in Users, token_address \in TokenAddresses,
       amount_in \in ProbeAmounts, minimum \in ProbeMinimums :
        LET acquired == acquire_swap_lock(sender, state, token_address, amount_in, minimum)
            cancelled == cancel_lock(sender, acquired.state, acquired.ret.lock_id)
        IN  acquired.ok =>
              /\ cancelled.ok
              /\ cancelled.state =
                    [state EXCEPT !.virtual_state.next_lock_id = @ + 1]

\* The lock acquired last was cancelled while another lock is outstanding.
C6_Witness ==
    /\ last.op = "cancel_lock"
    /\ last.lock_id = NextLockId - 1
    /\ OutstandingIds # {}
    /\ \E token \in ReserveTokens : Delta(token) # 0

(***************************************************************************)
(* C7: from a state without locks, a successful acquire_swap_lock followed *)
(* by a successful execute_lock_swap by the owner moves exactly amount_in  *)
(* of token_in from the owner to the pool and exactly amount_out of        *)
(* token_out from the pool to the owner, changes no other balance, leaves  *)
(* no lock outstanding and leaves the virtual reserves equal to the new    *)
(* actual reserves.                                                        *)
(***************************************************************************)
C7_AcquireExecuteMoves ==
    \A sender \in Users, token_address \in TokenAddresses,
       amount_in \in ProbeAmounts, minimum \in ProbeMinimums :
        LET acquired == acquire_swap_lock(sender, state, token_address, amount_in, minimum)
            executed == execute_lock_swap(sender, acquired.state, acquired.ret.lock_id)
            token_in == TokenAt(token_address)
            token_out == Opposite(token_in)
            amount_out == acquired.ret.amount_out
            after == executed.state
            virtual == virtual_liquidity_pools(after.virtual_state,
                                               BalanceOf(after, Pool, TokenA),
                                               BalanceOf(after, Pool, TokenB))
        IN  OutstandingIds = {} /\ acquired.ok /\ executed.ok =>
              /\ executed.ret.amount_out = amount_out
              /\ BalanceOf(after, sender, token_in)
                    = BalanceOf(state, sender, token_in) - amount_in
              /\ BalanceOf(after, Pool, token_in)
                    = BalanceOf(state, Pool, token_in) + amount_in
              /\ BalanceOf(after, sender, token_out)
                    = BalanceOf(state, sender, token_out) + amount_out
              /\ BalanceOf(after, Pool, token_out)
                    = BalanceOf(state, Pool, token_out) - amount_out
              /\ \A holder \in Users \cup {Pool} :
                    BalanceOf(after, holder, LIQUIDITY) = BalanceOf(state, holder, LIQUIDITY)
              /\ \A holder \in Users \ {sender}, token \in ReserveTokens :
                    BalanceOf(after, holder, token) = BalanceOf(state, holder, token)
              /\ DOMAIN after.virtual_state.locks = {}
              /\ virtual.ok
              /\ \A token \in ReserveTokens :
                    get_amount_of(virtual.balance, token) = BalanceOf(after, Pool, token)

\* The first lock was acquired in a state without locks and then executed.
C7_Witness ==
    /\ last.op = "execute_lock_swap"
    /\ last.lock_id = 0
    /\ NextLockId = 1
    /\ OutstandingIds = {}
    /\ \E user \in Users : BalanceOf(state, user, TokenA) > 0 /\ BalanceOf(state, user, TokenB) > 0

C9_MinimumQuote(token_in, amount_in) ==
    LET token_out == Opposite(token_in)
    IN  Min(SwapQuote(ActualReserve(token_in), ActualReserve(token_out),
                      amount_in, state.swap_fee_per_mille),
            SwapQuote(ActualReserve(token_in) + Delta(token_in),
                      ActualReserve(token_out) + Delta(token_out),
                      amount_in, state.swap_fee_per_mille))

C9_LockPricedAtMinimum ==
    Ready(Inputs) =>
    \A sender \in Users, token_address \in TokenAddresses,
       amount_in \in ProbeAmounts, minimum \in ProbeMinimums :
        \A acquired \in {acquire_swap_lock(sender, state, token_address, amount_in, minimum)},
           swapped \in {instant_swap(sender, state, token_address, amount_in, minimum)} :
            LET token_in == TokenAt(token_address)
                token_out == Opposite(token_in)
            IN  /\ acquired.ok =>
                    /\ acquired.ret.lock_id \in DOMAIN acquired.state.virtual_state.locks
                    /\ acquired.state.virtual_state.locks[acquired.ret.lock_id].amount_out
                          = C9_MinimumQuote(token_in, amount_in)
                    /\ acquired.ret.amount_out = C9_MinimumQuote(token_in, amount_in)
                /\ swapped.ok =>
                    /\ swapped.ret.amount_out = C9_MinimumQuote(token_in, amount_in)
                    /\ BalanceOf(swapped.state, sender, token_out)
                          = BalanceOf(state, sender, token_out)
                              + C9_MinimumQuote(token_in, amount_in)

\* A second lock was acquired whose amount_out is the quote on the virtual
\* reserves, below the quote on the actual reserves.
C9_Witness ==
    /\ last.op = "acquire_swap_lock"
    /\ last.lock_id \in OutstandingIds
    /\ Cardinality(OutstandingIds) = 2
    /\ LET lock == Locks[last.lock_id]
       IN  lock.amount_out <
              SwapQuote(ActualReserve(lock.tokens_in_out.token_in),
                        ActualReserve(lock.tokens_in_out.token_out),
                        lock.amount_in, state.swap_fee_per_mille)

(***************************************************************************)
(* C10: execute_lock_swap and cancel_lock fail when the lock id is not     *)
(* outstanding and when the caller is not the lock's owner, and have then  *)
(* changed nothing (locks, adjustment, ledger); a lock only leaves the     *)
(* lock set in a successful execute_lock_swap or cancel_lock of its id.    *)
(***************************************************************************)
C10_OnlyOwnerActsOnLock ==
    \A sender \in Users, lock_id \in ProbeLockIds :
        LET executed == execute_lock_swap(sender, state, lock_id)
            cancelled == cancel_lock(sender, state, lock_id)
        IN  (lock_id \notin OutstandingIds \/ Locks[lock_id].owner # sender) =>
              /\ ~executed.ok
              /\ executed.state = state
              /\ ~cancelled.ok
              /\ cancelled.state = state

C10_RemovedByExecuteOrCancel ==
    \A lock_id \in OutstandingIds :
        lock_id \notin OutstandingIds' =>
            /\ last'.op \in {"execute_lock_swap", "cancel_lock"}
            /\ last'.lock_id = lock_id

C10_UnknownOrForeignLockFails ==
    []C10_OnlyOwnerActsOnLock /\ [][C10_RemovedByExecuteOrCancel]_vars

\* A lock is outstanding whose swap somebody other than its owner could pay.
C10_Witness ==
    \E lock_id \in OutstandingIds, sender \in Users :
        LET lock == Locks[lock_id]
        IN  /\ sender # lock.owner
            /\ lock.amount_in > 0
            /\ lock.amount_out > 0
            /\ BalanceOf(state, sender, lock.tokens_in_out.token_in) >= lock.amount_in
            /\ ActualReserve(lock.tokens_in_out.token_out) >= lock.amount_out

(***************************************************************************)
(* C11: the permission gates acquire_swap_lock and nothing else. A caller  *)
(* the permission does not allow cannot acquire a lock (the call fails and *)
(* changes nothing) and owns no outstanding lock; every other action and   *)
(* callback gives the same result, events and state whether the permission *)
(* allows the caller or not. Checked in every reachable state in which the *)
(* chain delivers an invocation.                                           *)
(***************************************************************************)
\* The state with the opposite permission for everybody.
C11_Flipped(contract_state) ==
    [contract_state EXCEPT !.permission_lock_swap =
        IF @.anybody THEN Specific({}) ELSE Anybody]

C11_Same(result, flipped) ==
    /\ flipped.ok = result.ok
    /\ flipped.events = result.events
    /\ flipped.ret = result.ret
    /\ flipped.state = C11_Flipped(result.state)

\* The permission allows the caller: anybody, or one of the listed addresses.
C11_Allowed(sender) ==
    state.permission_lock_swap.anybody \/ sender \in state.permission_lock_swap.addresses

C11_Amounts == {1, MaxSupply}

C11_OthersIgnorePermission ==
    LET other == C11_Flipped(state)
    IN  \A sender \in Users :
          /\ \A token_address \in Inputs.token_addresses, amount \in C11_Amounts :
                C11_Same(deposit(sender, state, token_address, amount),
                         deposit(sender, other, token_address, amount))
          /\ \A token_address \in TokenAddresses, amount \in C11_Amounts :
                /\ C11_Same(provide_liquidity(sender, state, token_address, amount),
                            provide_liquidity(sender, other, token_address, amount))
                /\ C11_Same(instant_swap(sender, state, token_address, amount, 0),
                            instant_swap(sender, other, token_address, amount, 0))
                /\ \A wait_for_callback \in BOOLEAN :
                      C11_Same(withdraw(sender, state, token_address, amount, wait_for_callback),
                               withdraw(sender, other, token_address, amount, wait_for_callback))
          /\ \A token \in ReserveTokens, amount \in C11_Amounts, success \in BOOLEAN :
                C11_Same(deposit_callback(sender, success, state, token, amount),
                         deposit_callback(sender, success, other, token, amount))
          /\ \A amount \in C11_Amounts :
                /\ C11_Same(reclaim_liquidity(sender, state, amount),
                            reclaim_liquidity(sender, other, amount))
                /\ C11_Same(provide_initial_liquidity(sender, state, amount, 1),
                            provide_initial_liquidity(sender, other, amount, 1))
          /\ \A lock_id \in 0..MaxLocks :
                /\ C11_Same(execute_lock_swap(sender, state, lock_id),
                            execute_lock_swap(sender, other, lock_id))
                /\ C11_Same(cancel_lock(sender, state, lock_id),
                            cancel_lock(sender, other, lock_id))
          /\ C11_Same(wait_withdraw_callback(state), wait_withdraw_callback(other))

C11_PermissionGatesAcquireOnly ==
    /\ \A lock_id \in OutstandingIds : C11_Allowed(Locks[lock_id].owner)
    /\ Ready(Inputs) =>
          /\ \A sender \in Users, token_address \in TokenAddresses,
                amount_in \in ProbeAmounts, minimum \in ProbeMinimums :
                ~C11_Allowed(sender) =>
                    LET acquired == acquire_swap_lock(sender, state, token_address,
                                                      amount_in, minimum)
                    IN  ~acquired.ok /\ acquired.state = state
          /\ C11_OthersIgnorePermission

\* A caller the permission does not allow can swap at once, in a state in
\* which an allowed caller can acquire a lock for the same swap.
C11_Witness ==
    /\ Ready(Inputs)
    /\ OutstandingIds # {}
    /\ \E sender \in Users, allowed \in Users, token_address \in TokenAddresses :
          /\ ~C11_Allowed(sender)
          /\ C11_Allowed(allowed)
          /\ instant_swap(sender, state, token_address, 1, 0).ok
          /\ acquire_swap_lock(allowed, state, token_address, 1, 0).ok

(***************************************************************************)
(* C12: deposit leaves the contract state (the ledger included) unchanged; *)
(* deposit_callback with success credits exactly amount of the deposited   *)
(* token to the depositor and changes nothing else; deposit_callback       *)
(* without success fails and leaves the state unchanged. In a run, the     *)
(* step that issues a deposit changes no state, and the step that consumes *)
(* its event either changes nothing or credits exactly that deposit.       *)
(***************************************************************************)
C12_Credited(contract_state, sender, token, amount) ==
    [contract_state EXCEPT !.token_balances.balances =
        MapInsert(@, sender,
                  set_amount_of(get_balance_for(contract_state.token_balances, sender), token,
                                BalanceOf(contract_state, sender, token) + amount))]

C12_Handlers ==
    \A sender \in Users, amount \in Inputs.amounts :
        /\ \A token_address \in Inputs.token_addresses :
              deposit(sender, state, token_address, amount).state = state
        /\ \A token \in ReserveTokens :
              LET failed == deposit_callback(sender, FALSE, state, token, amount)
                  credited == deposit_callback(sender, TRUE, state, token, amount)
              IN  /\ ~failed.ok
                  /\ failed.state = state
                  /\ credited.ok
                  /\ BalanceOf(credited.state, sender, token)
                        = BalanceOf(state, sender, token) + amount
                  /\ credited.state = C12_Credited(state, sender, token, amount)

C12_Step ==
    /\ \A event \in BagToSet(pending') :
          (event.callback = "deposit_callback"
             /\ CopiesIn(event, pending') > CopiesIn(event, pending)) => state' = state
    /\ \A event \in BagToSet(pending) :
          (event.callback = "deposit_callback"
             /\ CopiesIn(event, pending') < CopiesIn(event, pending)) =>
                \/ state' = state
                \/ /\ state' = C12_Credited(state, event.sender, event.token, event.amount)
                   /\ last'.op = "deposit_callback"
    /\ (last'.op = "deposit" /\ last' # last) => state' = state

C12_DepositCreditsOnlyOnSuccess == []C12_Handlers /\ [][C12_Step]_vars

\* A deposit of the whole supply of A was credited by its callback.
C12_Witness ==
    /\ last.op = "deposit_callback"
    /\ pending = EmptyBag
    /\ \E user \in Users : BalanceOf(state, user, TokenA) = MaxSupply

(***************************************************************************)
(* C13: withdraw of a reserve token with an amount above the caller's      *)
(* balance of it fails, changes nothing and issues no transfer; otherwise  *)
(* it succeeds, lowers that balance by exactly amount, changes nothing     *)
(* else and issues one transfer of amount to the caller. In a run, the     *)
(* step that issues the transfer is the step that lowers the balance.      *)
(***************************************************************************)
C13_Debited(contract_state, sender, token, amount) ==
    LET updated == set_amount_of(get_balance_for(contract_state.token_balances, sender), token,
                                 BalanceOf(contract_state, sender, token) - amount)
    IN  [contract_state EXCEPT !.token_balances.balances =
            IF updated = EMPTY_BALANCE THEN MapRemove(@, sender)
            ELSE MapInsert(@, sender, updated)]

C13_Handler ==
    \A sender \in Users, token_address \in TokenAddresses,
       amount \in ProbeAmounts, wait_for_callback \in BOOLEAN :
        LET withdrawn == withdraw(sender, state, token_address, amount, wait_for_callback)
            token == TokenAt(token_address)
        IN  IF amount > BalanceOf(state, sender, token)
            THEN /\ ~withdrawn.ok
                 /\ withdrawn.state = state
                 /\ withdrawn.events = {}
            ELSE /\ withdrawn.ok
                 /\ BalanceOf(withdrawn.state, sender, token)
                       = BalanceOf(state, sender, token) - amount
                 /\ withdrawn.state = C13_Debited(state, sender, token, amount)
                 /\ Cardinality(withdrawn.events) = 1
                 /\ \A event \in withdrawn.events :
                       /\ event.sender = sender
                       /\ event.token_address = token_address
                       /\ event.amount = amount
                       /\ event.callback # "deposit_callback"

C13_Step ==
    \A event \in BagToSet(pending') :
        (event.callback # "deposit_callback"
           /\ CopiesIn(event, pending') > CopiesIn(event, pending)) =>
              /\ BalanceOf(state, event.sender, event.token) >= event.amount
              /\ state' = C13_Debited(state, event.sender, event.token, event.amount)

C13_WithdrawDebitsUpFront == []C13_Handler /\ [][C13_Step]_vars

\* A part of a balance was withdrawn and its transfer is not settled yet.
C13_Witness ==
    /\ last.op = "withdraw"
    /\ \E event \in BagToSet(pending) :
          /\ event.callback # "deposit_callback"
          /\ event.amount > 0
          /\ BalanceOf(state, event.sender, event.token) > 0

(***************************************************************************)
(* C14: with withdraw transfers and deposit callbacks that settle late, in *)
(* any order or never, while further invocations are delivered, a withdraw *)
(* that is not settled yet cannot be spent or withdrawn again: each        *)
(* withdraw is debited from the caller's balance in the step that issues   *)
(* it, whatever else is pending; the pool's tokens in the token contract   *)
(* cover the ledger and, on top of it, every transfer still to be made;    *)
(* and the settlement of a withdraw sends at most its amount once and      *)
(* credits nothing back.                                                   *)
(***************************************************************************)
\* Total of `token` in the withdraw transfers among the event groups of `bag`.
RECURSIVE PendingWithdrawsOver(_, _, _)
PendingWithdrawsOver(bag, token, events) ==
    IF events = {} THEN 0
    ELSE LET event == CHOOSE e \in events : TRUE
         IN  (IF event.callback # "deposit_callback" /\ event.token = token
              THEN event.amount * CopiesIn(event, bag) ELSE 0)
               + PendingWithdrawsOver(bag, token, events \ {event})

PendingWithdraws(token) == PendingWithdrawsOver(pending, token, BagToSet(pending))

C14_PendingWithdrawsCovered ==
    \A token \in ReserveTokens :
        external[token] >= LedgerSum(state.token_balances, token) + PendingWithdraws(token)

C14_Settles ==
    \A event \in BagToSet(pending) :
        (event.callback # "deposit_callback"
           /\ CopiesIn(event, pending') < CopiesIn(event, pending)) =>
              /\ CopiesIn(event, pending') = CopiesIn(event, pending) - 1
              /\ state' = state
              /\ \/ external' = external
                 \/ external' = [external EXCEPT ![event.token] = @ - event.amount]

C14_NoDoubleWithdraw ==
    []C14_PendingWithdrawsCovered /\ [][C13_Step /\ C14_Settles]_vars

\* Two withdraws of the same caller and token are unsettled at the same time.
C14_Witness ==
    \E first \in BagToSet(pending) :
        /\ first.callback # "deposit_callback"
        /\ \/ CopiesIn(first, pending) >= 2
           \/ \E second \in BagToSet(pending) \ {first} :
                 /\ second.callback # "deposit_callback"
                 /\ second.sender = first.sender
                 /\ second.token = first.token

C16_Solvent ==
    \A token \in ReserveTokens :
        /\ LedgerSum(state.token_balances, token) <= external[token]
        /\ kept[token] > 0 => LedgerSum(state.token_balances, token) < external[token]

C16_FailedTransferKeepsFunds ==
    \A event \in BagToSet(pending) :
        (event.callback # "deposit_callback"
           /\ CopiesIn(event, pending') < CopiesIn(event, pending)
           /\ external' = external) =>
              kept' = [kept EXCEPT ![event.token] = @ + event.amount]

C16_Solvency == []C16_Solvent /\ [][C16_FailedTransferKeepsFunds]_vars

\* A withdraw transfer has failed while a deposit and a withdraw are pending.
C16_Witness ==
    /\ \E token \in ReserveTokens : kept[token] > 0
    /\ \E event \in BagToSet(pending) : event.callback = "deposit_callback"
    /\ \E event \in BagToSet(pending) : event.callback # "deposit_callback"

(***************************************************************************)
(* C17: in every reachable state the liquidity-token field of the pool's   *)
(* own ledger entry (the total of minted shares) equals the sum of the     *)
(* liquidity-token balances of all other holders; a successful             *)
(* provide_initial_liquidity or provide_liquidity raises the pool's field  *)
(* and the caller's balance by the minted shares, a successful             *)
(* reclaim_liquidity lowers both by the burned shares, and no other        *)
(* holder's shares change.                                                 *)
(***************************************************************************)
C17_SharesOfOthers(contract_state) ==
    LedgerSumOver(contract_state.token_balances, LIQUIDITY,
                  DOMAIN contract_state.token_balances.balances \ {Pool})

C17_TotalIsSumOfShares(contract_state) ==
    BalanceOf(contract_state, Pool, LIQUIDITY) = C17_SharesOfOthers(contract_state)

\* `result` moved the shares of `sender` and the pool's total by `change`.
C17_SharesMoved(result, sender, change) ==
    result.ok =>
        /\ BalanceOf(result.state, Pool, LIQUIDITY)
              = BalanceOf(state, Pool, LIQUIDITY) + change
        /\ BalanceOf(result.state, sender, LIQUIDITY)
              = BalanceOf(state, sender, LIQUIDITY) + change
        /\ \A other \in Users \ {sender} :
              BalanceOf(result.state, other, LIQUIDITY) = BalanceOf(state, other, LIQUIDITY)
        /\ C17_TotalIsSumOfShares(result.state)

\* The amounts of the calls, and the zero amount.
C17_Amounts == LedgerInputs.amounts \cup {0}

C17_Handlers ==
    \A sender \in LedgerInputs.users :
        /\ \A token_a_amount, token_b_amount \in C17_Amounts :
              C17_SharesMoved(
                  provide_initial_liquidity(sender, state, token_a_amount, token_b_amount),
                  sender, initial_liquidity_tokens(token_a_amount, token_b_amount))
        /\ \A token_address \in TokenAddresses, amount \in C17_Amounts :
              C17_SharesMoved(
                  provide_liquidity(sender, state, token_address, amount), sender,
                  calculate_equivalent_and_minted_tokens(
                      amount,
                      BalanceOf(state, Pool, TokenAt(token_address)),
                      BalanceOf(state, Pool, Opposite(TokenAt(token_address))),
                      BalanceOf(state, Pool, LIQUIDITY)).minted)
        /\ \A liquidity_token_amount \in C17_Amounts :
              C17_SharesMoved(reclaim_liquidity(sender, state, liquidity_token_amount),
                              sender, 0 - liquidity_token_amount)

C17_TotalSupplyIsSumOfShares ==
    /\ C17_TotalIsSumOfShares(state)
    /\ C17_Handlers

\* A reclaim has burned part of the shares: some holder still has shares.
C17_Witness ==
    /\ last.op = "reclaim_liquidity"
    /\ BalanceOf(state, Pool, LIQUIDITY) > 0
    /\ \E user \in Users : BalanceOf(state, user, LIQUIDITY) > 0

(***************************************************************************)
(* C18: sparsity. In every reachable state no holder with an entry in the  *)
(* ledger mapping has all three balances (token A, token B, liquidity      *)
(* tokens) equal to zero, whatever amounts, zero included, the operations  *)
(* were called with.                                                       *)
(***************************************************************************)
C18_NoAllZeroEntry ==
    \A holder \in DOMAIN state.token_balances.balances :
        ~user_has_no_tokens(state.token_balances.balances[holder])

(***************************************************************************)
(* C19: a successful debit that leaves all three balances of the holder at *)
(* zero leaves the holder without an entry in the ledger mapping, and      *)
(* balance_of then returns the all-zero balance; a successful debit that   *)
(* leaves a balance non-zero keeps the entry, with only the debited        *)
(* balance lowered, by amount. The entries of other holders are untouched. *)
(***************************************************************************)
C19_Holders == Users \cup {Pool}
C19_Tokens == ReserveTokens \cup {LIQUIDITY}

\* The balance of `holder` with `token` lowered by `amount`.
C19_Lowered(self, holder, token, amount) ==
    [field \in DOMAIN EMPTY_BALANCE |->
        IF get_amount_of([EMPTY_BALANCE EXCEPT ![field] = 1], token) = 1
        THEN get_balance_for(self, holder)[field] - amount
        ELSE get_balance_for(self, holder)[field]]

C19_Debit(self, holder, token, amount) ==
    LET debited == deduct_from_token_balance(self, holder, token, amount)
        lowered == C19_Lowered(self, holder, token, amount)
        entries == debited.token_balances.balances
    IN  debited.ok =>
            /\ IF \A field \in DOMAIN lowered : lowered[field] = 0
               THEN /\ holder \notin DOMAIN entries
                    /\ get_balance_for(debited.token_balances, holder) = EMPTY_BALANCE
               ELSE /\ holder \in DOMAIN entries
                    /\ entries[holder] = lowered
                    /\ get_balance_for(debited.token_balances, holder) = lowered
            /\ \A other \in C19_Holders \ {holder} :
                  /\ other \in DOMAIN entries <=> other \in DOMAIN self.balances
                  /\ get_balance_for(debited.token_balances, other)
                        = get_balance_for(self, other)

C19_DebitDropsEmptyEntry ==
    \A holder \in C19_Holders, token \in C19_Tokens, amount \in Inputs.amounts :
        C19_Debit(state.token_balances, holder, token, amount)

\* A withdraw of a positive amount has debited its sender down to nothing:
\* the transfer is still to be made and the sender has no entry.
C19_Witness ==
    /\ last.op = "withdraw"
    /\ \E event \in BagToSet(pending) :
          /\ event.callback # "deposit_callback"
          /\ event.amount > 0
          /\ event.sender \notin DOMAIN state.token_balances.balances

(***************************************************************************)
(* C20: an operation that fails leaves the contract state (the pool        *)
(* configuration, the ledger, the lock set, the virtual adjustment and the *)
(* next lock id) exactly as it was before the operation, also when the     *)
(* failure is detected after part of the state was changed:                *)
(* execute_lock_swap and instant_swap fail when the owner lacks amount_in  *)
(* or the pool lacks amount_out (the lock stays outstanding, resp. is      *)
(* never created), provide_liquidity fails when the caller lacks the       *)
(* equivalent amount of the other token, and reclaim_liquidity may fail in *)
(* a later step.                                                           *)
(***************************************************************************)
C20_Atomic(result) == ~result.ok => transaction_outcome(state, result) = state

\* The handler had changed the state when it failed.
C20_FailedMidway(result) == ~result.ok /\ result.state # state

C20_Unpayable(lock) ==
    \/ BalanceOf(state, lock.owner, lock.tokens_in_out.token_in) < lock.amount_in
    \/ BalanceOf(state, Pool, lock.tokens_in_out.token_out) < lock.amount_out

C20_ExecuteLockSwap ==
    \A sender \in Inputs.users, lock_id \in 0..MaxLocks :
        LET executed == execute_lock_swap(sender, state, lock_id)
        IN  /\ C20_Atomic(executed)
            /\ (lock_id \in OutstandingIds /\ Locks[lock_id].owner = sender
                   /\ C20_Unpayable(Locks[lock_id])) =>
                  /\ C20_FailedMidway(executed)
                  /\ lock_id \in DOMAIN transaction_outcome(state, executed).virtual_state.locks

C20_InstantSwap ==
    \A sender \in Inputs.users, token_in \in TokenAddresses, amount_in \in Inputs.amounts :
        LET swapped == instant_swap(sender, state, token_in, amount_in, 0)
        IN  /\ C20_Atomic(swapped)
            /\ (contract_pools_have_liquidity(state)
                   /\ BalanceOf(state, sender, TokenAt(token_in)) < amount_in) =>
                  /\ ~swapped.ok
                  /\ transaction_outcome(state, swapped).virtual_state = state.virtual_state

C20_ProvideLiquidity ==
    \A sender \in Inputs.users, token_address \in TokenAddresses, amount \in Inputs.amounts :
        LET provided == provide_liquidity(sender, state, token_address, amount)
            token_in == TokenAt(token_address)
            calculated == calculate_equivalent_and_minted_tokens(
                              amount, BalanceOf(state, Pool, token_in),
                              BalanceOf(state, Pool, Opposite(token_in)),
                              BalanceOf(state, Pool, LIQUIDITY))
        IN  /\ C20_Atomic(provided)
            /\ (calculated.ok
                   /\ BalanceOf(state, sender, Opposite(token_in)) < calculated.equivalent) =>
                  ~provided.ok

C20_ReclaimLiquidity ==
    \A sender \in Inputs.users, liquidity_token_amount \in Inputs.amounts :
        C20_Atomic(reclaim_liquidity(sender, state, liquidity_token_amount))

C21_AcquireThenExecute(sender, contract_state, token_in, amount_in, amount_out_minimum) ==
    LET acquired == acquire_swap_lock(sender, contract_state, token_in, amount_in,
                                      amount_out_minimum)
        executed == execute_lock_swap(sender, acquired.state, acquired.ret.lock_id)
    IN  [ok |-> acquired.ok /\ executed.ok, state |-> executed.state]

\* `contract_state` with the permission to acquire locks given to everybody.
C21_Open(contract_state) == [contract_state EXCEPT !.permission_lock_swap = Anybody]

C21_SameAsPair(sender, token_in, amount_in, amount_out_minimum) ==
    LET swapped == instant_swap(sender, state, token_in, amount_in, amount_out_minimum)
        opened == C21_AcquireThenExecute(sender, C21_Open(state), token_in, amount_in,
                                         amount_out_minimum)
        pair == C21_AcquireThenExecute(sender, state, token_in, amount_in,
                                       amount_out_minimum)
    IN  /\ swapped.ok <=> opened.ok
        /\ C11_Allowed(sender) => (swapped.ok <=> pair.ok)
        /\ swapped.ok =>
              /\ swapped.state.token_balances = opened.state.token_balances
              /\ C11_Allowed(sender) => swapped.state = pair.state
              /\ swapped.state.virtual_state.locks = state.virtual_state.locks
              /\ swapped.state.virtual_state.lock_liquidity
                    = state.virtual_state.lock_liquidity
              /\ swapped.ret.lock_id \notin DOMAIN swapped.state.virtual_state.locks

C21_InstantSwapIsAcquireThenExecute ==
    /\ last.op = "instant_swap" => last.lock_id \notin OutstandingIds
    /\ Ready(Inputs) =>
          \A sender \in Inputs.users, token_in \in Inputs.token_addresses,
             amount_in \in Inputs.lock_amounts, amount_out_minimum \in Inputs.minimums :
              C21_SameAsPair(sender, token_in, amount_in, amount_out_minimum)

\* An instant swap has been made while a lock of another swap is outstanding.
C21_Witness ==
    /\ last.op = "instant_swap"
    /\ OutstandingIds # {}
    /\ \E token \in ReserveTokens : Delta(token) # 0

(***************************************************************************)
(* C22: provide_initial_liquidity fails unless both actual reserves of the *)
(* pool are zero: in every reachable state in which one of the pool's two  *)
(* reserve balances is non-zero, every call of it is rejected.             *)
(***************************************************************************)
C22_InitialNeedsBothReservesZero ==
    \A sender \in DrainInputs.users, token_a_amount, token_b_amount \in DrainInputs.amounts :
        provide_initial_liquidity(sender, state, token_a_amount, token_b_amount).ok =>
            ActualReserve(TokenA) = 0 /\ ActualReserve(TokenB) = 0

(***************************************************************************)
(* C23: the pool never loses value to rounding when liquidity is provided. *)
(* After every successful provide_liquidity, for each of the two reserve   *)
(* tokens, reserve_after * total_shares_before >= reserve_before *         *)
(* total_shares_after (the reserves backing each share do not decrease),   *)
(* and the product of the two actual reserves strictly increases.          *)
(***************************************************************************)
C23_NoLoss(before, after) ==
    /\ \A token \in ReserveTokens :
          BalanceOf(after, Pool, token) * BalanceOf(before, Pool, LIQUIDITY)
            >= BalanceOf(before, Pool, token) * BalanceOf(after, Pool, LIQUIDITY)
    /\ BalanceOf(after, Pool, TokenA) * BalanceOf(after, Pool, TokenB)
          > BalanceOf(before, Pool, TokenA) * BalanceOf(before, Pool, TokenB)

C24_OtherVirtualStates(contract_state) ==
    {VirtualState_new}
      \cup {add_lock(contract_state.virtual_state,
                     [amount_in |-> amount_in, amount_out |-> amount_out,
                      tokens_in_out |-> tokens_in_out, owner |-> "u1"]).virtual_state :
                amount_in \in {1, 2}, amount_out \in {0, 1},
                tokens_in_out \in {A_IN_B_OUT, B_IN_A_OUT}}

C24_SameOutcome(sender, token_address, amount, virtual_state) ==
    LET other == [state EXCEPT !.virtual_state = virtual_state]
        provided == provide_liquidity(sender, state, token_address, amount)
        provided_other == provide_liquidity(sender, other, token_address, amount)
    IN  /\ provided.ok <=> provided_other.ok
        /\ provided.ok =>
              /\ provided.state.token_balances = provided_other.state.token_balances
              /\ provided.state.virtual_state = state.virtual_state
              /\ provided_other.state.virtual_state = virtual_state

C24_ProvidePricesOffActualReserves ==
    \A sender \in DrainInputs.users, token_address \in DrainInputs.token_addresses,
       amount \in DrainInputs.amounts :
        \A virtual_state \in C24_OtherVirtualStates(state) :
            C24_SameOutcome(sender, token_address, amount, virtual_state)

\* Liquidity has been provided while locks were outstanding that move the
\* virtual reserves away from the actual ones.
C24_Witness ==
    /\ last.op = "provide_liquidity"
    /\ OutstandingIds # {}
    /\ \E token \in ReserveTokens : Delta(token) # 0

(***************************************************************************)
(* C25: for fixed reserve_in > 0, reserve_out and fee per mille in         *)
(* 0..1000, the swap quote is non-decreasing in amount_in: amount_in1 <=   *)
(* amount_in2 implies quote(amount_in1) <= quote(amount_in2), whatever     *)
(* result the function returns for them.                                   *)
(***************************************************************************)
C25_QuoteIsMonotonic ==
    (last.op = "calculate_swap_to_amount" /\ last.applied /\ last.pool_token_in > 0) =>
        \A larger_amount_in \in {amount \in MathAmounts : amount >= last.swap_amount_in} :
            \A quote \in last.outcomes,
               larger_quote \in calculate_swap_to_amount_outcomes(
                                    last.pool_token_in, last.pool_token_out,
                                    larger_amount_in, last.swap_fee_per_mille) :
                (quote.ok /\ larger_quote.ok) => quote.amount <= larger_quote.amount

(***************************************************************************)
(* C26: constant-product non-decrease. For all reserve_in > 0,             *)
(* reserve_out, amount_in and fee per mille in 0..1000, a returned quote   *)
(* `out` satisfies out <= reserve_out and                                  *)
(* (1000*reserve_in + (1000-fee)*amount_in) * (reserve_out - out)          *)
(*    >= 1000 * reserve_in * reserve_out.                                  *)
(***************************************************************************)
C26_ConstantProductHolds ==
    (last.op = "calculate_swap_to_amount" /\ last.applied /\ last.pool_token_in > 0) =>
        \A quote \in last.outcomes :
            quote.ok =>
                /\ quote.amount <= last.pool_token_out
                /\ (1000 * last.pool_token_in
                      + (1000 - last.swap_fee_per_mille) * last.swap_amount_in)
                     * (last.pool_token_out - quote.amount)
                   >= 1000 * last.pool_token_in * last.pool_token_out

(***************************************************************************)
(* C27: for all TokenAmount inputs with fee per mille in 0..1000 and a     *)
(* non-zero denominator, the swap quote is exactly                         *)
(* floor((1000-fee)*amount_in*reserve_out                                  *)
(*         / (1000*reserve_in + (1000-fee)*amount_in))                     *)
(* as computed over the integers: no intermediate product wraps around or  *)
(* aborts the call.                                                        *)
(***************************************************************************)
C27_ExactQuote(pool_token_in, pool_token_out, swap_amount_in, swap_fee_per_mille) ==
    ((1000 - swap_fee_per_mille) * swap_amount_in * pool_token_out)
        \div (1000 * pool_token_in + (1000 - swap_fee_per_mille) * swap_amount_in)

C27_QuoteIsExact ==
    (/\ last.op = "calculate_swap_to_amount"
     /\ last.applied
     /\ 1000 * last.pool_token_in
           + (1000 - last.swap_fee_per_mille) * last.swap_amount_in # 0) =>
        \A quote \in last.outcomes :
            /\ quote.ok
            /\ quote.amount = C27_ExactQuote(last.pool_token_in, last.pool_token_out,
                                             last.swap_amount_in, last.swap_fee_per_mille)

(***************************************************************************)
(* C28: u128_sqrt terminates for every input x and returns the largest r   *)
(* with r*r <= x, that is r*r <= x < (r+1)*(r+1): 0 for x = 0 and the      *)
(* largest u64 for x = u128::MAX. Every iteration of the binary search     *)
(* keeps low*low <= x and (high*high > x or high is the initial upper      *)
(* bound), and narrows the interval (low, high), which is never empty.     *)
(***************************************************************************)
C28_LoopInvariant ==
    last.op = "u128_sqrt" =>
        /\ last.low < last.high
        /\ last.low * last.low <= last.input
        /\ last.high * last.high > last.input \/ last.high = u128_sqrt_high
        /\ u128_sqrt_loop(last.input, last.low, last.high) = u128_sqrt(last.input)

C28_Returned ==
    (last.op = "u128_sqrt" /\ last.applied) =>
        \A returned \in last.outcomes :
            /\ returned.ok
            /\ returned.value = u128_sqrt(last.input)
            /\ returned.value * returned.value <= last.input
            /\ last.input < (returned.value + 1) * (returned.value + 1)
            /\ last.input = 0 => returned.value = 0
            /\ last.input = AmountMax => returned.value = HalfMax

\* An iteration narrows the interval; the loop returns when it has width 1.
C28_Narrows ==
    (last.op = "u128_sqrt" /\ ~last'.applied) =>
        /\ last'.input = last.input
        /\ last'.high - last'.low < last.high - last.low
        /\ last'.low >= last.low /\ last'.high <= last.high

C28_SqrtIsFloorOfRoot ==
    [](C28_LoopInvariant /\ C28_Returned) /\ [][C28_Narrows]_vars

\* The root of the largest amount has been returned: the largest u64.
C28_Witness ==
    /\ last.op = "u128_sqrt"
    /\ last.applied
    /\ last.input = AmountMax
    /\ last.outcomes = {[ok |-> TRUE, value |-> HalfMax]}

(***************************************************************************)
(* C29: calculate_equivalent_and_minted_tokens returns (0, 0) for          *)
(* amount_in = 0 whatever the reserves and the total shares are, a zero    *)
(* reserve_in included; for amount_in > 0 (and reserve_in > 0) it returns  *)
(* equivalent_out = floor(amount_in*reserve_out/reserve_in) + 1 and        *)
(* minted_shares = floor(amount_in*total_shares/reserve_in).               *)
(***************************************************************************)
C29_Returns(equivalent, minted) == {[ok |-> TRUE, equivalent |-> equivalent, minted |-> minted]}

C29_Floors ==
    C29_Returns(((last.token_in_amount * last.token_out_pool) \div last.token_in_pool) + 1,
                (last.token_in_amount * last.total_minted_liquidity) \div last.token_in_pool)

C29_Fits ==
    /\ last.token_in_amount * last.token_out_pool <= AmountMax
    /\ ((last.token_in_amount * last.token_out_pool) \div last.token_in_pool) + 1 <= AmountMax
    /\ last.token_in_amount * last.total_minted_liquidity <= AmountMax

C30_Paid(token, liquidity_token_amount) ==
    (BalanceOf(state, Pool, token) * liquidity_token_amount)
        \div BalanceOf(state, Pool, LIQUIDITY)

C30_Reclaimed(sender, liquidity_token_amount) ==
    LET reclaimed == reclaim_liquidity(sender, state, liquidity_token_amount)
    IN  reclaimed.ok =>
            /\ \A token \in ReserveTokens :
                  /\ BalanceOf(reclaimed.state, sender, token)
                        = BalanceOf(state, sender, token)
                            + C30_Paid(token, liquidity_token_amount)
                  /\ BalanceOf(reclaimed.state, Pool, token)
                        = BalanceOf(state, Pool, token)
                            - C30_Paid(token, liquidity_token_amount)
            /\ BalanceOf(reclaimed.state, sender, LIQUIDITY)
                  = BalanceOf(state, sender, LIQUIDITY) - liquidity_token_amount
            /\ BalanceOf(reclaimed.state, Pool, LIQUIDITY)
                  = BalanceOf(state, Pool, LIQUIDITY) - liquidity_token_amount

C31_ValidArguments ==
    /\ last.swap_fee_per_mille >= 0
    /\ last.swap_fee_per_mille <= 1000
    /\ last.token_a_address # last.token_b_address
    /\ last.token_a_address \notin Users
    /\ last.token_b_address \notin Users

C31_FreshPool(contract_state) ==
    /\ contract_state.token_balances.balances = EmptyMap
    /\ contract_state.virtual_state.locks = EmptyMap
    /\ contract_state.virtual_state.lock_liquidity = [a_tokens |-> 0, b_tokens |-> 0]
    /\ contract_state.virtual_state.next_lock_id = 0

C31_Constructed ==
    last.op = "deploy" /\ last'.op # "deploy" =>
        IF C31_ValidArguments
        THEN last'.op = "initialize" /\ C31_FreshPool(state')
        ELSE last'.op = "initialize_failed" /\ state' = NoContract

C31_ConstructionChecksItsArguments == [][C31_Constructed]_vars

\* The constructor has rejected two equal token contracts with an allowed fee.
C31_Witness ==
    /\ last.op = "initialize_failed"
    /\ last.token_a_address = last.token_b_address
    /\ last.token_a_address \notin Users
    /\ last.swap_fee_per_mille = 1000
    /\ state = NoContract

(***************************************************************************)
(* C32: no operation and no callback changes the pool configuration: the   *)
(* fee, the two reserve-token addresses, the pool's own address and the    *)
(* permission policy keep the values the constructor was given.            *)
(***************************************************************************)
C32_Configuration(contract_state) ==
    [swap_fee_per_mille |-> contract_state.swap_fee_per_mille,
     token_a_address |-> contract_state.token_balances.token_a_address,
     token_b_address |-> contract_state.token_balances.token_b_address,
     contract_address |-> contract_state.liquidity_pool_address,
     token_lp_address |-> contract_state.token_balances.token_lp_address,
     permission_lock_swap |-> contract_state.permission_lock_swap]

C32_ConfigurationKept ==
    /\ last.op = "deploy" /\ last'.op = "initialize" =>
          C32_Configuration(state')
              = [swap_fee_per_mille |-> last.swap_fee_per_mille,
                 token_a_address |-> last.token_a_address,
                 token_b_address |-> last.token_b_address,
                 contract_address |-> last.contract_address,
                 token_lp_address |-> last.contract_address,
                 permission_lock_swap |-> last.permission_lock_swap]
    /\ Deployed => C32_Configuration(state') = C32_Configuration(state)

C32_ConfigurationNeverChanges == [][C32_ConfigurationKept]_vars

\* A lock has been executed in a pool built with a fee and with the token
\* contracts in the other order.
C32_Witness ==
    /\ last.op = "execute_lock_swap"
    /\ state.swap_fee_per_mille = 3
    /\ state.token_balances.token_a_address = TokenBAddress
    /\ state.token_balances.token_b_address = TokenAAddress

(***************************************************************************)
(* C33: whenever execute_lock_swap succeeds it moves exactly the amount_in *)
(* and the amount_out stored in the lock at acquisition (amount_in from    *)
(* the owner to the pool, amount_out from the pool to the owner) and       *)
(* returns that amount_out, whatever the actual reserves, the virtual      *)
(* reserves and the quote are at the time of execution: the price is never *)
(* recomputed.                                                             *)
(***************************************************************************)
C33_Executed(sender, lock_id) ==
    LET lock == Locks[lock_id]
        token_in == lock.tokens_in_out.token_in
        token_out == lock.tokens_in_out.token_out
        executed == execute_lock_swap(sender, state, lock_id)
    IN  executed.ok =>
            /\ executed.ret.amount_out = lock.amount_out
            /\ BalanceOf(executed.state, lock.owner, token_in)
                  = BalanceOf(state, lock.owner, token_in) - lock.amount_in
            /\ BalanceOf(executed.state, Pool, token_in)
                  = BalanceOf(state, Pool, token_in) + lock.amount_in
            /\ BalanceOf(executed.state, Pool, token_out)
                  = BalanceOf(state, Pool, token_out) - lock.amount_out
            /\ BalanceOf(executed.state, lock.owner, token_out)
                  = BalanceOf(state, lock.owner, token_out) + lock.amount_out
            /\ \A holder \in DeepInputs.users \cup {Pool} :
                  BalanceOf(executed.state, holder, LIQUIDITY)
                      = BalanceOf(state, holder, LIQUIDITY)

C33_ExecutePaysTheLockedPrice ==
    \A sender \in DeepInputs.users, lock_id \in OutstandingIds :
        C33_Executed(sender, lock_id)

\* The lock, if its owner can execute it now, whose stored amount_out is not
\* what the same amount_in is quoted at now.
C33_StalePrice(lock_id) ==
    LET lock == Locks[lock_id]
    IN  /\ execute_lock_swap(lock.owner, state, lock_id).ok
        /\ calculate_minimum_swap_to_amount(state, lock.amount_in,
                                            lock.tokens_in_out).amount # lock.amount_out

\* A lock has been executed, which changed the reserves, and another lock
\* acquired before that is ready to be executed at a price that is no
\* longer the quote.
C33_Witness ==
    /\ last.op = "execute_lock_swap"
    /\ \E lock_id \in OutstandingIds : C33_StalePrice(lock_id)

(***************************************************************************)
(* C34: when the chain runs the callback of every deposit exactly once,    *)
(* every deposit is eventually completed, and the completion of a deposit  *)
(* whose transfer succeeded credits exactly its amount of its token to the *)
(* depositor, once: the event group is consumed by the step that credits,  *)
(* and a deposit whose transfer failed credits nothing. This holds         *)
(* whatever invocations come between the deposit and its callback.         *)
(***************************************************************************)
C34_Completed(event) ==
    CopiesIn(event, pending') < CopiesIn(event, pending) =>
        /\ CopiesIn(event, pending') = CopiesIn(event, pending) - 1
        /\ IF external'[event.token] = external[event.token] + event.amount
           THEN /\ BalanceOf(state', event.sender, event.token)
                     = BalanceOf(state, event.sender, event.token) + event.amount
                /\ state'.token_balances
                     = add_to_token_balance(state.token_balances, event.sender,
                                            event.token, event.amount)
                /\ state'.virtual_state = state.virtual_state
           ELSE state' = state /\ external' = external

C34_CreditedOnce == \A event \in FairDepositEvents : C34_Completed(event)

C34_InFlight(event) == CopiesIn(event, pending) > 0

C34_DepositIsCreditedExactlyOnce ==
    /\ [][C34_CreditedOnce]_vars
    /\ \A event \in FairDepositEvents : C34_InFlight(event) ~> ~C34_InFlight(event)

\* A deposit has been credited while a withdraw issued after it was still
\* in flight.
C34_Witness ==
    /\ last.op = "deposit_callback"
    /\ \E event \in BagToSet(pending) : event.callback # "deposit_callback"
    /\ \E token \in ReserveTokens : BalanceOf(state, "u1", token) > 0

(***************************************************************************)
(* C35: with fee 0 the swap quote is strictly less than reserve_out for    *)
(* every reserve_in, reserve_out and amount_in for which the function      *)
(* returns: a swap never takes the whole output reserve.                   *)
(***************************************************************************)
C35_QuoteLeavesSomeReserve ==
    (last.op = "calculate_swap_to_amount" /\ last.applied /\ last.swap_fee_per_mille = 0) =>
        \A quote \in last.outcomes : quote.ok => quote.amount < last.pool_token_out

(***************************************************************************)
(* C36: execute_lock_swap never changes the virtual reserves: for each     *)
(* reserve token, actual reserve + virtual adjustment has the same value   *)
(* right before and right after a successful execute_lock_swap, whatever   *)
(* other locks are outstanding.                                            *)
(***************************************************************************)
C36_VirtualReserve(contract_state, token) ==
    BalanceOf(contract_state, Pool, token)
        + lock_liquidity_amount_of(contract_state.virtual_state.lock_liquidity, token)

C36_ExecuteKeepsVirtualReserves ==
    \A sender \in DeepInputs.users, lock_id \in OutstandingIds :
        LET executed == execute_lock_swap(sender, state, lock_id)
        IN  executed.ok =>
                \A token \in ReserveTokens :
                    C36_VirtualReserve(executed.state, token)
                        = C36_VirtualReserve(state, token)

\* A lock has been executed while other locks with a net effect on the
\* virtual reserves stay outstanding.
C36_Witness ==
    /\ last.op = "execute_lock_swap"
    /\ OutstandingIds # {}
    /\ \E token \in ReserveTokens : Delta(token) # 0
    /\ \E token \in ReserveTokens : ActualReserve(token) > 0

(***************************************************************************)
(* C37: the pool-internal operations conserve the reserve tokens.          *)
(* instant_swap, provide_initial_liquidity, provide_liquidity,             *)
(* reclaim_liquidity, acquire_swap_lock, execute_lock_swap and cancel_lock *)
(* leave, for token A and for token B, the sum of the balances of all      *)
(* holders of the ledger (the pool included) unchanged; the sum changes    *)
(* only by +amount when a deposit is completed with success and by -amount *)
(* in a withdraw.                                                          *)
(***************************************************************************)
C37_PoolInternal ==
    {"instant_swap", "provide_initial_liquidity", "provide_liquidity", "reclaim_liquidity",
     "acquire_swap_lock", "execute_lock_swap", "cancel_lock"}

C37_Change(token) ==
    LedgerSum(state'.token_balances, token) - LedgerSum(state.token_balances, token)

\* The step completes a deposit of `token` whose transfer succeeded.
C37_DepositCompleted(token, event) ==
    /\ event.callback = "deposit_callback"
    /\ event.token = token
    /\ pending' = pending (-) SetToBag({event})
    /\ external'[token] = external[token] + event.amount

\* The step is a withdraw of `token`, which issues the transfer `event`.
C37_Withdrawn(token, event) ==
    /\ event.callback # "deposit_callback"
    /\ event.token = token
    /\ pending' = pending (+) SetToBag({event})

C37_Conserved(token) ==
    /\ last'.op \in C37_PoolInternal => C37_Change(token) = 0
    /\ \A event \in BagToSet(pending) :
          C37_DepositCompleted(token, event) => C37_Change(token) = event.amount
    /\ \A event \in BagToSet(pending') :
          C37_Withdrawn(token, event) => C37_Change(token) = 0 - event.amount
    /\ C37_Change(token) # 0 =>
          \/ \E event \in BagToSet(pending) : C37_DepositCompleted(token, event)
          \/ \E event \in BagToSet(pending') : C37_Withdrawn(token, event)

C37_PoolOperationsConserveTokens == [][\A token \in ReserveTokens : C37_Conserved(token)]_vars

\* Liquidity has been provided to a pool in which both users and the pool
\* hold balances.
C37_Witness ==
    /\ last.op = "provide_liquidity"
    /\ Users \subseteq DOMAIN state.token_balances.balances
    /\ \A token \in ReserveTokens : LedgerSum(state.token_balances, token) > 0

(***************************************************************************)
(* C38: the ledger and the lock manager are changed only by their own      *)
(* operations. deposit, the completion of a deposit, withdraw, the         *)
(* completion of a withdraw, provide_initial_liquidity, provide_liquidity  *)
(* and reclaim_liquidity leave the lock set, the virtual adjustment and    *)
(* the next lock id unchanged; acquire_swap_lock and cancel_lock leave     *)
(* every balance of the ledger unchanged: acquiring a lock neither checks  *)
(* nor reserves the funds of the owner.                                    *)
(***************************************************************************)
C38_LedgerOperations ==
    {"deposit", "deposit_callback", "withdraw", "wait_withdraw_callback",
     "provide_initial_liquidity", "provide_liquidity", "reclaim_liquidity"}

C38_LockOperations == {"acquire_swap_lock", "cancel_lock"}

C38_Framed ==
    /\ last'.op \in C38_LedgerOperations => state'.virtual_state = state.virtual_state
    /\ last'.op \in C38_LockOperations => state'.token_balances = state.token_balances

C38_LedgerAndLocksAreSeparate == [][C38_Framed]_vars

\* A lock has just been acquired by an owner who does not hold its amount_in.
C38_Witness ==
    /\ last.op = "acquire_swap_lock"
    /\ last.lock_id \in OutstandingIds
    /\ BalanceOf(state, Locks[last.lock_id].owner,
                 Locks[last.lock_id].tokens_in_out.token_in)
          < Locks[last.lock_id].amount_in

(***************************************************************************)
(* C39: a round trip never profits. For reserves reserve_a, reserve_b >= 1,*)
(* any fee per mille in 0..1000 and any amount_in, swapping amount_in of A *)
(* for out_b and then out_b back against the reserves                      *)
(* (reserve_b - out_b, reserve_a + amount_in) returns out_a <= amount_in.  *)
(***************************************************************************)
C39_RoundTripNeverProfits ==
    (last.swapped = "back" /\ last.ok) => last.output_a <= last.amount_in

(***************************************************************************)
(* C40: in the token contract, after any sequence of transfer,             *)
(* bulk_transfer, transfer_from, bulk_transfer_from, approve and           *)
(* approve_relative calls, failed calls leaving the state unchanged, the   *)
(* sum of all stored balances equals total_supply, also after a transfer   *)
(* whose sender and receiver are the same address, and no zero balance is  *)
(* stored in the balance map.                                              *)
(***************************************************************************)
RECURSIVE C40_SumOver(_, _)
C40_SumOver(balances, holders) ==
    IF holders = {} THEN 0
    ELSE LET holder == CHOOSE h \in holders : TRUE
         IN  balances[holder] + C40_SumOver(balances, holders \ {holder})

C40_BalancesSumToTotalSupply ==
    /\ C40_SumOver(state.balances, DOMAIN state.balances) = state.total_supply
    /\ \A holder \in DOMAIN state.balances : state.balances[holder] # 0

\* A spender has moved, in one call, tokens of an address to that address
\* itself and to the other one, and both addresses hold tokens.
C40_Witness ==
    /\ last.op = "bulk_transfer_from"
    /\ last.to_self
    /\ DOMAIN state.balances = TokenHolders
    /\ state.total_supply = TokenAmountMax

====
